---- MODULE Spec2Model ----
(***************************************************************************)
(* Memory-management layer of the GoodScript C++ runtime.                  *)
(*                                                                         *)
(*   Allocator      conservative MVFF pool   runtime/cpp/gc/allocator.hpp  *)
(*   AllocatorAMC   precise AMC pool   compiler/.../gc/allocator-amc.hpp   *)
(*   BumpAllocator  cursor arena       compiler/.../gc/allocator-bump.hpp  *)
(*                                                                         *)
(* The Memory Pool System is the environment: every mps_* call the code    *)
(* makes is applied to the record mps, and the answer of a call that may   *)
(* fail is an input of the action that makes it.  Committed memory is      *)
(* counted in MiB, request sizes in bytes.                                 *)
(***************************************************************************)
EXTENDS Integers, Sequences, FiniteSets, TLC

VARIABLES
    allocator,      \* statics of class Allocator
    allocatorAMC,   \* statics of class AllocatorAMC
    bump,           \* one BumpAllocator object
    mps,            \* the MPS: live arenas and the resources inside them
    calls,          \* the mps_* calls (and constructor runs) of the last operation
    op,             \* the last operation: its name, argument and outcome
    mem,            \* the words of the precise pool, by byte address
    top,            \* the address the precise pool reserves next
    slots,          \* the references the registered stack holds
    objs,           \* what the program stored in each object it allocated
    ncollect,       \* collections made
    pc,             \* where a precise allocation taken pass by pass stands
    gc,             \* what the last collection moved and what it kept
    hist,           \* the first allocation of the BumpAllocator and its last request
    threads,        \* each thread: its thread_local BumpAllocator and where it stands
    handles,        \* Allocator::pool, thread, thread_root when threads run init
    fmt,            \* the last call of a format function and the objects of its region
    guards,         \* the Runtime and RuntimeAMC objects alive
    other,          \* a second BumpAllocator object, to move from and to
    store,          \* the buffers of the BumpAllocators: their bytes and what they served
    arr             \* the last alloc_array call on words of WordBits bits

lifeVars == <<allocator, allocatorAMC, bump, mps, calls, hist>>

heapVars == <<mem, top, slots, objs, ncollect, gc>>

loopVars == <<pc>>

threadVars == <<threads, handles>>

formatVars == <<fmt>>

guardVars == <<guards>>

arenaVars == <<other, store>>

arrayVars == <<arr>>

vars ==
    <<allocator, allocatorAMC, bump, mps, calls, op, mem, top, slots, objs, ncollect, pc,
      gc, hist, threads, handles, fmt, guards, other, store, arr>>

----------------------------------------------------------------------------
(* Bounds of the model *)

\* arenas the MPS creates in one behaviour
MaxArenas == 2
\* commits the MPS refuses within one allocation call
MaxRetries == 1
\* MiB the MPS commits when an arena is created
ArenaOverheadMiB == 1
\* MiB the MPS commits at once when a pool has to grow
ExtentMiB == 256
\* MiB the operating system can back
MachineMiB == 768
\* capacity of the largest BumpAllocator, in bytes
MaxBumpBytes == 16
\* objects allocated in the precise pool in one behaviour
MaxObjs == 3
\* collections of the precise pool in one behaviour
MaxCollects == 1

----------------------------------------------------------------------------
(* AllocatorConfig *)

defaults == [arena_size |-> 64, commit_limit |-> 512]

large == [arena_size |-> 256, commit_limit |-> 1024]

small == [arena_size |-> 16, commit_limit |-> 128]

Configs == {defaults, large, small}

----------------------------------------------------------------------------
(* The MPS: mps.arenas maps each live arena to its commit limit and its    *)
(* committed memory, mps.res holds the live pools, formats, threads and     *)
(* roots as <<kind, arena>>, mps.next is the next arena to be created.      *)

MpsInit == [arenas |-> <<>>, res |-> {}, next |-> 1]

LiveArenas(m) == DOMAIN m.arenas

\* mps_arena_create_k can succeed: the commit limit covers what creation commits
ArenaCreatable(limited, limit) ==
    /\ ArenaOverheadMiB <= MachineMiB
    /\ limited => ArenaOverheadMiB <= limit

MpsArenaCreate(m, limited, limit) ==
    [m EXCEPT !.arenas = (m.next :> [limited |-> limited, limit |-> limit,
                                      committed |-> ArenaOverheadMiB]) @@ @,
              !.next = @ + 1]

MpsArenaDestroy(m, a) ==
    [m EXCEPT !.arenas = [i \in (DOMAIN @) \ {a} |-> @[i]]]

\* one mps_* call of init or shutdown, made on arena a
MpsCall(m, a, call) ==
    CASE call = "pool_create"   -> [m EXCEPT !.res = @ \cup {<<"pool", a>>}]
      [] call = "thread_reg"    -> [m EXCEPT !.res = @ \cup {<<"thread", a>>}]
      [] call = "root_create"   -> [m EXCEPT !.res = @ \cup {<<"root", a>>}]
      [] call = "fmt_create"    -> [m EXCEPT !.res = @ \cup {<<"fmt", a>>}]
      [] call = "pool_destroy"  -> [m EXCEPT !.res = @ \ {<<"pool", a>>}]
      [] call = "thread_dereg"  -> [m EXCEPT !.res = @ \ {<<"thread", a>>}]
      [] call = "root_destroy"  -> [m EXCEPT !.res = @ \ {<<"root", a>>}]
      [] call = "fmt_destroy"   -> [m EXCEPT !.res = @ \ {<<"fmt", a>>}]
      [] call = "arena_destroy" -> MpsArenaDestroy(m, a)
      [] OTHER                  -> m

RECURSIVE MpsCalls(_, _, _)
MpsCalls(m, a, cs) ==
    IF cs = <<>> THEN m ELSE MpsCalls(MpsCall(m, a, Head(cs)), a, Tail(cs))

\* the memory committed by the arenas in S
RECURSIVE Committed(_, _)
Committed(m, S) ==
    IF S = {} THEN 0
    ELSE LET a == CHOOSE x \in S : TRUE IN
         m.arenas[a].committed + Committed(m, S \ {a})

\* the pool can commit one more extent in arena a: the machine has the
\* memory and the commit limit of the arena, if it has one, allows it
Fits(m, a) ==
    LET ar == m.arenas[a] IN
    /\ Committed(m, LiveArenas(m)) + ExtentMiB <= MachineMiB
    /\ ar.limited => ar.committed + ExtentMiB <= ar.limit

\* mps_alloc / mps_reserve: grow says the pool has no free block and must
\* commit an extent; the call fails when that extent cannot be committed
MpsAllocOk(m, a, grow) == grow => Fits(m, a)

MpsAlloc(m, a, grow) ==
    IF grow /\ Fits(m, a)
    THEN [m EXCEPT !.arenas[a].committed = @ + ExtentMiB]
    ELSE m

\* mps_arena_collect: the MPS may hand extents back to the operating system
MpsCollect(m, a, release) ==
    IF release THEN [m EXCEPT !.arenas[a].committed = ArenaOverheadMiB] ELSE m

----------------------------------------------------------------------------
(* Addresses and results *)

NoAddr ==
    [arena |-> 0, src |-> "none", state |-> "none", size |-> 0, tag |-> 0, addr |-> 0]

\* cfg is the configuration an init is called with (an allocation call that
\* finds the allocator uninitialized calls init with the defaults)
Op(name, cfg, result, ret, ctor) ==
    [name |-> name, cfg |-> cfg, result |-> result, ret |-> ret, ctor |-> ctor]

----------------------------------------------------------------------------
(* class Allocator *)

Allocator0 == [initialized |-> FALSE, config |-> defaults, arena |-> 0]

committed_memory(a, m) ==
    IF ~a.initialized THEN 0 ELSE m.arenas[a.arena].committed

\* the creation steps of Allocator::init, in order
CreateOrder == <<"arena_create", "pool_create", "thread_reg", "root_create">>

\* a cleanup that forgets the arena when pool creation fails
CleanupLeaksArena(k) ==
    CASE k = 1 -> <<>>
      [] k = 2 -> <<>>
      [] k = 3 -> <<"pool_destroy", "arena_destroy">>
      [] k = 4 -> <<"thread_dereg", "pool_destroy", "arena_destroy">>

\* what Allocator::init destroys when creation step k fails
Cleanup(k) ==
    CASE k = 1 -> <<>>
      [] k = 2 -> <<"arena_destroy">>
      [] k = 3 -> <<"pool_destroy", "arena_destroy">>
      [] k = 4 -> <<"thread_dereg", "pool_destroy", "arena_destroy">>

\* a shutdown that leaves the arena
ShutdownKeepsArena == <<"root_destroy", "thread_dereg", "pool_destroy">>

\* a shutdown that destroys the pool before the root
ShutdownPoolFirst == <<"pool_destroy", "root_destroy", "thread_dereg", "arena_destroy">>

\* what Allocator::shutdown destroys, in order
ShutdownOrder == <<"root_destroy", "thread_dereg", "pool_destroy", "arena_destroy">>

\* the steps of an init whose step failAt fails (0: none does); the arena
\* it creates is mps.next
InitSteps(m, limited, limit, order, undo, failAt) ==
    LET a       == m.next
        done    == IF failAt = 0 THEN order ELSE SubSeq(order, 1, failAt - 1)
        m1      == IF failAt = 1 THEN m
                   ELSE MpsCalls(MpsArenaCreate(m, limited, limit), a, Tail(done))
        failed  == IF failAt = 0 THEN <<>> ELSE <<order[failAt] \o ":fail">>
    IN  [mps   |-> MpsCalls(m1, a, undo),
         calls |-> done \o failed \o undo,
         ok    |-> failAt = 0,
         arena |-> a]

\* the steps at which an init can fail: arena creation must fail when the
\* commit limit does not cover what creation commits
InitFailures(limited, limit, order) ==
    {k \in 0..Len(order) : k # 1 => ArenaCreatable(limited, limit)}

\* init without its guard
AlreadyInitializedNever(a) == FALSE

\* if (initialized) return;
AlreadyInitialized(a) == a.initialized

\* the commit limit Allocator::init hands to mps_arena_create_k
CommitLimitArg(cfg) == cfg.commit_limit

\* Allocator::init(cfg)
init(a, m, cfg, failAt) ==
    IF AlreadyInitialized(a)
    THEN [alloc |-> a, mps |-> m, calls |-> <<>>, result |-> "noop"]
    ELSE LET r == InitSteps(m, TRUE, CommitLimitArg(cfg), CreateOrder,
                            IF failAt = 0 THEN <<>> ELSE Cleanup(failAt), failAt)
         IN  [alloc  |-> [initialized |-> r.ok,
                          config      |-> cfg,
                          arena       |-> IF failAt = 1 THEN a.arena ELSE r.arena],
              mps    |-> r.mps,
              calls  |-> r.calls,
              result |-> IF r.ok THEN "ok" ELSE "runtime_error"]

\* a shutdown without its guard
shutdown_unguarded(a, m) ==
    [alloc  |-> [a EXCEPT !.initialized = FALSE],
     mps    |-> MpsCalls(m, a.arena, ShutdownOrder),
     calls  |-> ShutdownOrder,
     result |-> "ok"]

\* Allocator::shutdown()
shutdown(a, m) ==
    IF ~a.initialized
    THEN [alloc |-> a, mps |-> m, calls |-> <<>>, result |-> "noop"]
    ELSE [alloc  |-> [a EXCEPT !.initialized = FALSE],
          mps    |-> MpsCalls(m, a.arena, ShutdownOrder),
          calls  |-> ShutdownOrder,
          result |-> "ok"]

PointerSize == 8

\* (n + a - 1) & ~(a - 1)
AlignUp(n, a) == ((n + a - 1) \div a) * a

Max(x, y) == IF x >= y THEN x ELSE y

\* the bytes each of the three allocation functions asks mps_alloc for
RequestSize(variant, sizeofT, count) ==
    CASE variant = "alloc_args"  -> AlignUp(Max(sizeofT, PointerSize), 8)
      [] variant = "alloc"       -> AlignUp(sizeofT, PointerSize)
      [] variant = "alloc_array" -> AlignUp(sizeofT * count, PointerSize)

\* constructor runs of one allocation
Constructs(variant, count) ==
    IF variant = "alloc_array" THEN [i \in 1..count |-> "construct"]
    ELSE <<"construct">>

\* the memset before construction
ZeroFill(variant, trivial) ==
    IF variant = "alloc_args" /\ trivial THEN <<>> ELSE <<"memset">>

\* an allocation that collects and asks again when mps_alloc fails
TryAllocAgain(m, a, grow) ==
    IF MpsAllocOk(m, a, grow)
    THEN [ok |-> TRUE, mps |-> MpsAlloc(m, a, grow), calls |-> <<"mps_alloc">>]
    ELSE [ok |-> FALSE, mps |-> m,
          calls |-> <<"mps_alloc:fail", "mps_arena_collect", "mps_alloc:fail">>]

\* mps_alloc(&addr, pool, size) and the test of its result
TryAlloc(m, a, grow) ==
    IF MpsAllocOk(m, a, grow)
    THEN [ok |-> TRUE, mps |-> MpsAlloc(m, a, grow), calls |-> <<"mps_alloc">>]
    ELSE [ok |-> FALSE, mps |-> m, calls |-> <<"mps_alloc:fail">>]

\* Allocator::alloc<T>(args...), alloc<T>(), alloc_array<T>(count)
alloc(a, m, variant, sizeofT, count, trivial, failAt, grow) ==
    LET i == init(a, m, defaults, failAt)
        t == TryAlloc(i.mps, i.alloc.arena, grow)
    IN
    IF i.result = "runtime_error"
    THEN [alloc |-> i.alloc, mps |-> i.mps, calls |-> i.calls,
          result |-> "runtime_error", ret |-> NoAddr, ctor |-> 0]
    ELSE IF ~t.ok
    THEN [alloc |-> i.alloc, mps |-> t.mps, calls |-> i.calls \o t.calls,
          result |-> "bad_alloc", ret |-> NoAddr, ctor |-> 0]
    ELSE LET cs == Constructs(variant, count) IN
         [alloc  |-> i.alloc,
          mps    |-> t.mps,
          calls  |-> i.calls \o t.calls \o ZeroFill(variant, trivial) \o cs,
          result |-> "ok",
          ret    |-> [arena |-> i.alloc.arena, src |-> "pool", state |-> "Live",
                      size |-> RequestSize(variant, sizeofT, count), tag |-> 0,
                      addr |-> 0],
          ctor   |-> Len(cs)]

\* Allocator::reserved_memory(): the address space of an arena is at least
\* the size it was created with and at least what it has committed
reserved_memory(a, m) ==
    IF ~a.initialized THEN 0
    ELSE Max(a.config.arena_size, m.arenas[a.arena].committed)

\* Allocator::get_config()
get_config(a) == a.config

\* Allocator::stats()
stats(a, m) ==
    [committed    |-> committed_memory(a, m),
     reserved     |-> reserved_memory(a, m),
     arena_size   |-> a.config.arena_size,
     commit_limit |-> a.config.commit_limit]

\* a collect without its guard
collect_unguarded(a, m, release) ==
    [mps |-> m, calls |-> <<"mps_arena_collect">>, result |-> "ok"]

\* Allocator::collect()
collect(a, m, release) ==
    IF ~a.initialized
    THEN [mps |-> m, calls |-> <<>>, result |-> "noop"]
    ELSE [mps |-> MpsCollect(m, a.arena, release), calls |-> <<"mps_arena_collect">>,
          result |-> "ok"]

\* an allocation call that finds the allocator uninitialized creates an arena
CanInit(a) == ~a.initialized => mps.next <= MaxArenas

\* the allocation functions with the count and constructibility each reads
Calls ==
    [variant : {"alloc_args"}, count : {1}, trivial : BOOLEAN]
    \cup [variant : {"alloc"}, count : {1}, trivial : {FALSE}]
    \cup [variant : {"alloc_array"}, count : {0, 2}, trivial : {FALSE}]

\* sizeof(T) and alignof(T) of the types allocated
Types == {[size |-> 1, align |-> 1], [size |-> 12, align |-> 4]}

Allocator_init(cfg, failAt) ==
    /\ CanInit(allocator)
    /\ failAt \in InitFailures(TRUE, cfg.commit_limit, CreateOrder)
    /\ allocator.initialized => failAt = 0
    /\ \E r \in {init(allocator, mps, cfg, failAt)} :
       /\ allocator' = r.alloc
       /\ mps' = r.mps
       /\ calls' = r.calls
       /\ op' = Op("init", cfg, r.result, NoAddr, 0)
    /\ UNCHANGED <<allocatorAMC, bump, heapVars, loopVars, threadVars, formatVars, guardVars, hist, arenaVars, arrayVars>>

Allocator_shutdown ==
    /\ \E r \in {shutdown(allocator, mps)} :
       /\ allocator' = r.alloc
       /\ mps' = r.mps
       /\ calls' = r.calls
       /\ op' = Op("shutdown", defaults, r.result, NoAddr, 0)
    /\ UNCHANGED <<allocatorAMC, bump, heapVars, loopVars, threadVars, formatVars, guardVars, hist, arenaVars, arrayVars>>

Allocator_alloc(c, T, failAt, grow) ==
    /\ CanInit(allocator)
    /\ failAt \in InitFailures(TRUE, defaults.commit_limit, CreateOrder)
    /\ allocator.initialized => failAt = 0
    /\ \E r \in {alloc(allocator, mps, c.variant, T.size, c.count, c.trivial, failAt, grow)} :
       /\ allocator' = r.alloc
       /\ mps' = r.mps
       /\ calls' = r.calls
       /\ op' = Op(c.variant, defaults, r.result, r.ret, r.ctor)
    /\ UNCHANGED <<allocatorAMC, bump, heapVars, loopVars, threadVars, formatVars, guardVars, hist, arenaVars, arrayVars>>

Allocator_collect(release) ==
    /\ \E r \in {collect(allocator, mps, release)} :
       /\ mps' = r.mps
       /\ calls' = r.calls
       /\ op' = Op("collect", defaults, r.result, NoAddr, 0)
    /\ UNCHANGED <<allocator, allocatorAMC, bump, heapVars, loopVars, threadVars, formatVars, guardVars, hist, arenaVars, arrayVars>>

----------------------------------------------------------------------------
(* class AllocatorAMC *)

AllocatorAMC0 == [initialized |-> FALSE, arena |-> 0]

amc_committed_memory(a, m) ==
    IF ~a.initialized THEN 0 ELSE m.arenas[a.arena].committed

\* the creation steps of AllocatorAMC::init, in order
AmcCreateOrder ==
    <<"arena_create", "thread_reg", "root_create", "fmt_create", "pool_create">>

\* a cleanup that forgets the root when the creation of the format fails
AmcCleanupLeaksRoot(k) ==
    CASE k = 1 -> <<>>
      [] k = 2 -> <<"arena_destroy">>
      [] k = 3 -> <<"thread_dereg", "arena_destroy">>
      [] k = 4 -> <<"thread_dereg", "arena_destroy">>
      [] k = 5 -> <<"fmt_destroy", "root_destroy", "thread_dereg", "arena_destroy">>

\* what AllocatorAMC::init destroys when creation step k fails
AmcCleanup(k) ==
    CASE k = 1 -> <<>>
      [] k = 2 -> <<"arena_destroy">>
      [] k = 3 -> <<"thread_dereg", "arena_destroy">>
      [] k = 4 -> <<"root_destroy", "thread_dereg", "arena_destroy">>
      [] k = 5 -> <<"fmt_destroy", "root_destroy", "thread_dereg", "arena_destroy">>

\* what AllocatorAMC::shutdown destroys, in order
AmcShutdownOrder ==
    <<"pool_destroy", "fmt_destroy", "root_destroy", "thread_dereg", "arena_destroy">>

\* AllocatorAMC::init(): the arena is created with mps_args_none, so with
\* the MPS's default commit limit, which is none
amc_init(a, m, failAt) ==
    IF a.initialized
    THEN [alloc |-> a, mps |-> m, calls |-> <<>>, result |-> "noop"]
    ELSE LET r == InitSteps(m, FALSE, 0, AmcCreateOrder,
                            IF failAt = 0 THEN <<>> ELSE AmcCleanup(failAt), failAt)
         IN  [alloc  |-> [initialized |-> r.ok,
                          arena       |-> IF failAt = 1 THEN a.arena ELSE r.arena],
              mps    |-> r.mps,
              calls  |-> r.calls,
              result |-> IF r.ok THEN "ok" ELSE "runtime_error"]

\* AllocatorAMC::shutdown()
amc_shutdown(a, m) ==
    IF ~a.initialized
    THEN [alloc |-> a, mps |-> m, calls |-> <<>>, result |-> "noop"]
    ELSE [alloc  |-> [a EXCEPT !.initialized = FALSE],
          mps    |-> MpsCalls(m, a.arena, AmcShutdownOrder),
          calls  |-> AmcShutdownOrder,
          result |-> "ok"]

\* ObjectHeader::header_size(): two words, already pointer-aligned
header_size == AlignUp(2 * PointerSize, PointerSize)

\* total_size of AllocatorAMC::alloc and alloc_array
TotalSize(sizeofT, count) == AlignUp(header_size + sizeofT * count, PointerSize)

\* a loop that goes round whatever mps_commit answers
RetryAlways(committed) == TRUE

\* a loop unrolled to a single pass
RetryNever(committed) == FALSE

\* } while (!mps_commit(pool, addr, total_size));
Retry(committed) == ~committed

\* one pass of the body of the do-while: reserve, header, memset, construct.
\* ok is FALSE when mps_reserve failed.
Attempt(m, a, total, count, grow) ==
    IF ~MpsAllocOk(m, a, grow)
    THEN [ok |-> FALSE, mps |-> m, calls |-> <<"mps_reserve:fail">>, ctor |-> 0,
          obj |-> NoAddr]
    ELSE [ok    |-> TRUE,
          mps   |-> MpsAlloc(m, a, grow),
          calls |-> <<"mps_reserve", "header", "memset">>
                    \o [i \in 1..count |-> "construct"],
          ctor  |-> count,
          obj   |-> [arena |-> a, src |-> "pool", state |-> "Reserved",
                     size |-> total, tag |-> 0, addr |-> 0]]

\* a loop that raises when the commit is refused
reserve_commit_or_throw(m, a, total, count, outs) ==
    IF outs = <<>>
    THEN [mps |-> m, calls |-> <<>>, result |-> "pending", ret |-> NoAddr, ctor |-> 0,
          left |-> 0]
    ELSE LET t == Attempt(m, a, total, count, Head(outs).grow) IN
         IF ~t.ok
         THEN [mps |-> t.mps, calls |-> t.calls, result |-> "bad_alloc", ret |-> NoAddr,
               ctor |-> 0, left |-> Len(outs) - 1]
         ELSE IF ~Head(outs).commit
         THEN [mps |-> t.mps, calls |-> t.calls \o <<"mps_commit:fail">>,
               result |-> "bad_alloc", ret |-> NoAddr, ctor |-> t.ctor,
               left |-> Len(outs) - 1]
         ELSE [mps |-> t.mps, calls |-> t.calls \o <<"mps_commit">>, result |-> "ok",
               ret |-> [t.obj EXCEPT !.state = "Committed"], ctor |-> t.ctor,
               left |-> Len(outs) - 1]

\* the reserve/commit loop; outs holds the MPS's answers, one per pass:
\* whether the reservation has to grow the pool and whether the commit
\* succeeds.  The result is "pending" when outs ends before the loop does.
RECURSIVE reserve_commit(_, _, _, _, _)
reserve_commit(m, a, total, count, outs) ==
    IF outs = <<>>
    THEN [mps |-> m, calls |-> <<>>, result |-> "pending", ret |-> NoAddr, ctor |-> 0,
          left |-> 0]
    ELSE LET t == Attempt(m, a, total, count, Head(outs).grow) IN
         IF ~t.ok
         THEN [mps |-> t.mps, calls |-> t.calls, result |-> "bad_alloc", ret |-> NoAddr,
               ctor |-> 0, left |-> Len(outs) - 1]
         ELSE IF Retry(Head(outs).commit)
         THEN LET r == reserve_commit(t.mps, a, total, count, Tail(outs)) IN
              [r EXCEPT !.calls = t.calls \o <<"mps_commit:fail">> \o @,
                        !.ctor = @ + t.ctor]
         ELSE [mps    |-> t.mps,
               calls  |-> t.calls \o <<IF Head(outs).commit THEN "mps_commit"
                                       ELSE "mps_commit:fail">>,
               result |-> "ok",
               ret    |-> [t.obj EXCEPT !.state = IF Head(outs).commit THEN "Committed"
                                                  ELSE "Reserved"],
               ctor   |-> t.ctor,
               left   |-> Len(outs) - 1]

\* AllocatorAMC::alloc<T>(args...), alloc<T>(), alloc_array<T>(count)
amc_alloc(a, m, sizeofT, count, failAt, outs) ==
    LET i == amc_init(a, m, failAt) IN
    IF i.result = "runtime_error"
    THEN [alloc |-> i.alloc, mps |-> i.mps, calls |-> i.calls,
          result |-> "runtime_error", ret |-> NoAddr, ctor |-> 0, left |-> Len(outs)]
    ELSE LET r == reserve_commit(i.mps, i.alloc.arena, TotalSize(sizeofT, count),
                                 count, outs)
         IN  [alloc |-> i.alloc, mps |-> r.mps, calls |-> i.calls \o r.calls,
              result |-> r.result, ret |-> r.ret, ctor |-> r.ctor, left |-> r.left]

\* AllocatorAMC::reserved_memory(): the address space of the arena is at
\* least what it has committed
amc_reserved_memory(a, m) ==
    IF ~a.initialized THEN 0 ELSE m.arenas[a.arena].committed

\* AllocatorAMC::collect()
amc_collect(a, m, release) ==
    IF ~a.initialized
    THEN [mps |-> m, calls |-> <<>>, result |-> "noop"]
    ELSE [mps |-> MpsCollect(m, a.arena, release), calls |-> <<"mps_arena_collect">>,
          result |-> "ok"]

\* the MPS's answers to one pass of the loop
Answers == [grow : BOOLEAN, commit : BOOLEAN]

\* the answers to the passes of one call: at most MaxRetries refused commits,
\* and none after the pass that ends the loop
AnswerSeqs ==
    {s \in UNION {[1..n -> Answers] : n \in 1..(MaxRetries + 1)} :
        \A i \in 1..(Len(s) - 1) : ~s[i].commit}

AllocatorAMC_init(failAt) ==
    /\ CanInit(allocatorAMC)
    /\ failAt \in InitFailures(FALSE, 0, AmcCreateOrder)
    /\ allocatorAMC.initialized => failAt = 0
    /\ \E r \in {amc_init(allocatorAMC, mps, failAt)} :
       /\ allocatorAMC' = r.alloc
       /\ mps' = r.mps
       /\ calls' = r.calls
       /\ op' = Op("amc_init", defaults, r.result, NoAddr, 0)
    /\ UNCHANGED <<allocator, bump, heapVars, loopVars, threadVars, formatVars, guardVars, hist, arenaVars, arrayVars>>

AllocatorAMC_shutdown ==
    /\ \E r \in {amc_shutdown(allocatorAMC, mps)} :
       /\ allocatorAMC' = r.alloc
       /\ mps' = r.mps
       /\ calls' = r.calls
       /\ op' = Op("amc_shutdown", defaults, r.result, NoAddr, 0)
    /\ UNCHANGED <<allocator, bump, heapVars, loopVars, threadVars, formatVars, guardVars, hist, arenaVars, arrayVars>>

AllocatorAMC_alloc(c, T, failAt, outs) ==
    /\ CanInit(allocatorAMC)
    /\ failAt \in InitFailures(FALSE, 0, AmcCreateOrder)
    /\ allocatorAMC.initialized => failAt = 0
    /\ \E r \in {amc_alloc(allocatorAMC, mps, T.size, c.count, failAt, outs)} :
       /\ r.result # "pending"
       /\ r.left = 0
       /\ allocatorAMC' = r.alloc
       /\ mps' = r.mps
       /\ calls' = r.calls
       /\ op' = Op("amc_" \o c.variant, defaults, r.result, r.ret, r.ctor)
    /\ UNCHANGED <<allocator, bump, heapVars, loopVars, threadVars, formatVars, guardVars, hist, arenaVars, arrayVars>>

AllocatorAMC_collect(release) ==
    /\ \E r \in {amc_collect(allocatorAMC, mps, release)} :
       /\ mps' = r.mps
       /\ calls' = r.calls
       /\ op' = Op("amc_collect", defaults, r.result, NoAddr, 0)
    /\ UNCHANGED <<allocator, allocatorAMC, bump, heapVars, loopVars, threadVars, formatVars, guardVars, hist, arenaVars, arrayVars>>

----------------------------------------------------------------------------
(* AllocatorAMC::alloc taken pass by pass: the call stands before           *)
(* mps_reserve or before mps_commit, and the MPS answers each when it is    *)
(* reached.                                                                 *)

PcIdle == [at |-> "idle", variant |-> "none", total |-> 0, count |-> 0,
           retried |-> FALSE]

\* if (!initialized) init(); and the computation of total_size
Loop_call(c, T, failAt) ==
    /\ pc.at = "idle"
    /\ CanInit(allocatorAMC)
    /\ failAt \in InitFailures(FALSE, 0, AmcCreateOrder)
    /\ allocatorAMC.initialized => failAt = 0
    /\ \E i \in {amc_init(allocatorAMC, mps, failAt)} :
       /\ allocatorAMC' = i.alloc
       /\ mps' = i.mps
       /\ calls' = i.calls
       /\ IF i.result = "runtime_error"
          THEN /\ pc' = PcIdle
               /\ op' = Op("amc_" \o c.variant, defaults, "runtime_error", NoAddr, 0)
          ELSE /\ pc' = [at |-> "reserve", variant |-> c.variant,
                         total |-> TotalSize(T.size, c.count), count |-> c.count,
                         retried |-> FALSE]
               /\ op' = Op("amc_" \o c.variant, defaults, "pending", NoAddr, 0)
    /\ UNCHANGED <<allocator, bump, heapVars, hist, threadVars, formatVars, guardVars, arenaVars, arrayVars>>

\* mps_reserve, the test of its result, the header, the memset, the constructor
Loop_reserve(grow) ==
    /\ pc.at = "reserve"
    /\ \E t \in {Attempt(mps, allocatorAMC.arena, pc.total, pc.count, grow)} :
       /\ mps' = t.mps
       /\ calls' = t.calls
       /\ IF t.ok
          THEN /\ pc' = [pc EXCEPT !.at = "commit"]
               /\ op' = [op EXCEPT !.ret = t.obj, !.ctor = t.ctor]
          ELSE /\ pc' = [PcIdle EXCEPT !.retried = pc.retried]
               /\ op' = [op EXCEPT !.result = "bad_alloc", !.ret = NoAddr]
    /\ UNCHANGED <<allocator, allocatorAMC, bump, heapVars, hist, threadVars, formatVars, guardVars, arenaVars, arrayVars>>

\* } while (!mps_commit(pool, addr, total_size)); and the return
Loop_commit(committed) ==
    /\ pc.at = "commit"
    /\ calls' = <<IF committed THEN "mps_commit" ELSE "mps_commit:fail">>
    /\ IF Retry(committed)
       THEN /\ pc' = [pc EXCEPT !.at = "reserve", !.retried = TRUE]
            /\ op' = [op EXCEPT !.ret = NoAddr]
       ELSE /\ pc' = [PcIdle EXCEPT !.retried = pc.retried]
            /\ op' = [op EXCEPT !.result = "ok",
                                !.ret.state = IF committed THEN "Committed"
                                              ELSE "Reserved"]
    /\ UNCHANGED <<allocator, allocatorAMC, bump, mps, heapVars, hist, threadVars, formatVars, guardVars, arenaVars, arrayVars>>

----------------------------------------------------------------------------
(* class BumpAllocator *)

Bump0 == [built |-> FALSE, home |-> 0, arena_ |-> 0, current_ |-> 0, end_ |-> 0,
          arena_size_ |-> 0]

\* the addresses at which the MPS places the buffer of a BumpAllocator
Bases == {72}

\* the capacities BumpAllocators are constructed with
Capacities == {MaxBumpBytes}

\* sizeof(T) and alignof(T) of the types bump-allocated
BumpTypes == {[size |-> 12, align |-> 4], [size |-> 8, align |-> 8]}

used(b) == b.current_ - b.arena_

available(b) == b.end_ - b.current_

capacity(b) == b.arena_size_

\* an arena that is never found exhausted
ExhaustedNever(b, aligned, size) == FALSE

\* an arena that is always found exhausted
ExhaustedAlways(b, aligned, size) == TRUE

\* if (aligned + size > end_): the arena is exhausted
Exhausted(b, aligned, size) == aligned + size > b.end_

\* BumpAllocator::BumpAllocator(arena_size): home is the arena the buffer
\* lies in, base the address mps_alloc returned
bump_ctor(b, a, m, n, base, failAt, grow) ==
    LET r == alloc(a, m, "alloc_array", 1, n, FALSE, failAt, grow) IN
    [bump   |-> IF r.result = "ok"
                THEN [built |-> TRUE, home |-> r.ret.arena, arena_ |-> base,
                      current_ |-> base, end_ |-> base + n, arena_size_ |-> n]
                ELSE b,
     alloc  |-> r.alloc, mps |-> r.mps, calls |-> r.calls, result |-> r.result,
     ret    |-> NoAddr, ctor |-> r.ctor]

\* BumpAllocator::alloc<T>(args...) and alloc_array<T>(count)
bump_alloc(b, a, m, variant, T, count, failAt, grow) ==
    LET size    == IF variant = "alloc_array" THEN T.size * count ELSE T.size
        aligned == AlignUp(b.current_, T.align)
        cs      == Constructs(variant, count)
    IN  IF Exhausted(b, aligned, size)
        THEN LET r == alloc(a, m, variant, T.size, count, FALSE, failAt, grow) IN
             [bump |-> b, alloc |-> r.alloc, mps |-> r.mps, calls |-> r.calls,
              result |-> r.result, ret |-> r.ret, ctor |-> r.ctor]
        ELSE [bump   |-> [b EXCEPT !.current_ = aligned + size],
              alloc  |-> a,
              mps    |-> m,
              calls  |-> (IF variant = "alloc_array" THEN <<"memset">> ELSE <<>>) \o cs,
              result |-> "ok",
              ret    |-> [arena |-> b.home, src |-> "bump", state |-> "Live",
                          size |-> size, tag |-> 0, addr |-> aligned],
              ctor   |-> Len(cs)]

\* a reset that leaves the cursor
reset_keeps_cursor(b) == b

\* BumpAllocator::reset()
reset(b) == [b EXCEPT !.current_ = b.arena_]

\* BumpAllocator::clear()
clear(b) == [b EXCEPT !.current_ = b.arena_]

BumpCalls ==
    [variant : {"alloc_args"}, count : {1}] \cup [variant : {"alloc_array"}, count : {0, 2}]

BumpAllocator_ctor(n, base, failAt, grow) ==
    /\ ~bump.built
    /\ CanInit(allocator)
    /\ failAt \in InitFailures(TRUE, defaults.commit_limit, CreateOrder)
    /\ allocator.initialized => failAt = 0
    /\ \E r \in {bump_ctor(bump, allocator, mps, n, base, failAt, grow)} :
       /\ bump' = r.bump
       /\ allocator' = r.alloc
       /\ mps' = r.mps
       /\ calls' = r.calls
       /\ op' = Op("bump_ctor", defaults, r.result, r.ret, r.ctor)
    /\ UNCHANGED <<allocatorAMC, heapVars, loopVars, threadVars, formatVars, guardVars, hist, arenaVars, arrayVars>>

\* the addresses at which the MPS places the blocks the pool serves
PoolAddrs ==
    Bases \cup {base + (MaxBumpBytes + PointerSize) * k : base \in Bases, k \in 1..2}

\* mps_alloc can return addr: a block of the pool does not overlap the
\* buffer of b while the arena that buffer was taken from is alive
MpsPlaces(b, m, addr) ==
    (b.built /\ b.home \in LiveArenas(m)) => (addr < b.arena_ \/ addr >= b.end_)

\* the requests a BumpAllocator can get in a state, each with the answers
\* of the MPS to it
BumpRequests(b, a, m) ==
    {q \in [c : BumpCalls, T : BumpTypes, failAt : 0..4, grow : BOOLEAN,
            paddr : PoolAddrs] :
        /\ CanInit(a)
        /\ q.failAt \in InitFailures(TRUE, defaults.commit_limit, CreateOrder)
        /\ a.initialized => q.failAt = 0
        /\ MpsPlaces(b, m, q.paddr)}

\* BumpAllocator::alloc / alloc_array with the address of what it returns
bump_serve(b, a, m, q) ==
    LET r == bump_alloc(b, a, m, q.c.variant, q.T, q.c.count, q.failAt, q.grow) IN
    IF r.ret.src = "pool" THEN [r EXCEPT !.ret.addr = q.paddr] ELSE r

\* what is remembered of the allocations of the BumpAllocator: the request,
\* address and used() of the first that returned, the last request, whether
\* it directly followed a reset() and whether it came later than the first
NoHist ==
    [first |-> [set |-> FALSE, req |-> <<>>, ret |-> NoAddr, used |-> 0],
     req |-> <<>>, afterReset |-> FALSE, later |-> FALSE]

Recorded(h, q, r, afterReset) ==
    [first      |-> IF ~h.first.set /\ r.result = "ok"
                    THEN [set |-> TRUE, req |-> <<q.c, q.T>>, ret |-> r.ret,
                          used |-> used(r.bump)]
                    ELSE h.first,
     req        |-> <<q.c, q.T>>,
     afterReset |-> afterReset,
     later      |-> h.first.set]

\* mps_alloc does not return a block it has returned and that is still
\* allocated: the pool never frees
BlockFree(h, m, addr) ==
    (h.first.set /\ h.first.ret.src = "pool" /\ h.first.ret.arena \in LiveArenas(m))
        => addr # h.first.ret.addr

BumpAllocator_alloc(q) ==
    /\ bump.built
    /\ q \in BumpRequests(bump, allocator, mps)
    /\ \E r \in {bump_serve(bump, allocator, mps, q)} :
       /\ bump' = r.bump
       /\ allocator' = r.alloc
       /\ mps' = r.mps
       /\ calls' = r.calls
       /\ op' = Op("bump_" \o q.c.variant, defaults, r.result, r.ret, r.ctor)
    /\ UNCHANGED <<allocatorAMC, heapVars, loopVars, threadVars, formatVars, guardVars, hist, arenaVars, arrayVars>>

\* the same call, remembered
BumpAllocator_alloc_hist(q) ==
    /\ bump.built
    /\ q \in BumpRequests(bump, allocator, mps)
    /\ BlockFree(hist, mps, q.paddr)
    /\ \E r \in {bump_serve(bump, allocator, mps, q)} :
       /\ bump' = r.bump
       /\ allocator' = r.alloc
       /\ mps' = r.mps
       /\ calls' = r.calls
       /\ op' = Op("bump_" \o q.c.variant, defaults, r.result, r.ret, r.ctor)
       /\ hist' = Recorded(hist, q, r, op.name = "bump_reset")
    /\ UNCHANGED <<allocatorAMC, heapVars, loopVars, threadVars, formatVars, guardVars, arenaVars, arrayVars>>

BumpAllocator_reset ==
    /\ bump.built
    /\ bump' = reset(bump)
    /\ calls' = <<>>
    /\ op' = Op("bump_reset", defaults, "ok", NoAddr, 0)
    /\ UNCHANGED <<allocator, allocatorAMC, mps, heapVars, loopVars, threadVars, formatVars, guardVars, hist, arenaVars, arrayVars>>

BumpAllocator_clear ==
    /\ bump.built
    /\ bump' = clear(bump)
    /\ calls' = <<"memset">>
    /\ op' = Op("bump_clear", defaults, "ok", NoAddr, 0)
    /\ UNCHANGED <<allocator, allocatorAMC, mps, heapVars, loopVars, threadVars, formatVars, guardVars, hist, arenaVars, arrayVars>>

-----------------------------------------------------------------------------
(* Two BumpAllocator objects, bump and other, over the bytes of their      *)
(* buffers.  store.bufs lists the buffers the constructors were given,     *)
(* store.bytes what each byte of them holds (0, or 1 for a byte a          *)
(* constructor with arguments stored), store.served the non-empty objects  *)
(* the buffer of each object has served since its last reset() or clear(), *)
(* store.this the object of the last call and store.can what               *)
(* can_allocate(sizeof(T)) answered right before the last allocation.      *)

\* buffers the BumpAllocators are given
MaxBuffers == 2

Objects == {"bump", "other"}

\* the capacities the objects are constructed with
ArenaCapacities == {MaxBumpBytes - 4, MaxBumpBytes}

\* sizeof(T) and alignof(T) of the types allocated, an int among them
ArenaTypes == BumpTypes \cup {[size |-> 4, align |-> 4]}

ArenaBytes == UNION {base..(base + MaxBumpBytes - 1) : base \in PoolAddrs}

Store0 ==
    [bytes |-> [a \in ArenaBytes |-> 0], bufs |-> {},
     served |-> [o \in Objects |-> <<>>], this |-> "none", can |-> FALSE]

Object(o) == IF o = "bump" THEN bump ELSE other

\* std::memset(addr, v, n), and a constructor storing v in each of n bytes
fill(bytes, addr, n, v) ==
    [a \in ArenaBytes |-> IF addr <= a /\ a < addr + n THEN v ELSE bytes[a]]

\* BumpAllocator::can_allocate(size)
can_allocate(b, size, align) == b.current_ + size <= b.end_

\* what a move leaves in other: nullptr, nullptr, nullptr, 0
MovedFrom == [Bump0 EXCEPT !.built = TRUE]

\* a move that leaves other its capacity
move_keeps_capacity(b, o) == [this |-> o, other |-> [MovedFrom EXCEPT !.arena_size_ = o.arena_size_]]

\* BumpAllocator(BumpAllocator&& other), and the branch of operator= for
\* this != &other
move(b, o) == [this |-> o, other |-> MovedFrom]

\* a clear that only rewinds
clear_bytes_kept(bytes, b) == bytes

\* std::memset(arena_, 0, arena_size_) of clear()
clear_bytes(bytes, b) == fill(bytes, b.arena_, b.arena_size_, 0)

\* BumpAllocator::BumpAllocator(arena_size) for the object o
Arena_ctor(o, n, base, failAt, grow) ==
    /\ ~Object(o).built
    /\ Cardinality(store.bufs) < MaxBuffers
    /\ base \in PoolAddrs
    /\ \A p \in PoolAddrs : p < base <=> \E f \in store.bufs : f.base = p
    /\ CanInit(allocator)
    /\ failAt \in InitFailures(TRUE, defaults.commit_limit, CreateOrder)
    /\ allocator.initialized => failAt = 0
    /\ \E r \in {bump_ctor(Object(o), allocator, mps, n, base, failAt, grow)} :
       /\ bump' = IF o = "bump" THEN r.bump ELSE bump
       /\ other' = IF o = "other" THEN r.bump ELSE other
       /\ allocator' = r.alloc
       /\ mps' = r.mps
       /\ calls' = r.calls
       /\ op' = Op("bump_ctor", defaults, r.result, r.ret, r.ctor)
       /\ store' = IF r.result = "ok"
                   THEN [store EXCEPT !.bufs = @ \cup {[base |-> base, size |-> n]},
                                      !.bytes = fill(@, base, n, 0),
                                      !.this = o]
                   ELSE [store EXCEPT !.this = o]
    /\ UNCHANGED <<allocatorAMC, heapVars, loopVars, threadVars, formatVars, guardVars, hist, arrayVars>>

\* the requests for objects of the types Ts the object b can get, each with
\* the answers of the MPS to it: the pool, which places the buffers from the
\* lowest address on, places a block it serves itself above them
ArenaRequests(b, a, m, Ts) ==
    {q \in [c : BumpCalls, T : Ts, failAt : 0..4, grow : BOOLEAN, paddr : PoolAddrs] :
        /\ CanInit(a)
        /\ q.failAt \in InitFailures(TRUE, defaults.commit_limit, CreateOrder)
        /\ a.initialized => q.failAt = 0
        /\ \A p \in PoolAddrs : p <= q.paddr}

\* BumpAllocator::alloc<T>(args...) and alloc_array<T>(count) on the object
\* o: T(args...) stores 1 in each of its bytes, T() leaves the zeros; the
\* bytes and what was served are followed if rec
Arena_alloc(o, q, rec) ==
    /\ Object(o).built
    /\ q \in ArenaRequests(Object(o), allocator, mps, ArenaTypes)
    /\ \E r \in {bump_serve(Object(o), allocator, mps, q)} :
       /\ bump' = IF o = "bump" THEN r.bump ELSE bump
       /\ other' = IF o = "other" THEN r.bump ELSE other
       /\ allocator' = r.alloc
       /\ mps' = r.mps
       /\ calls' = r.calls
       /\ op' = Op("bump_" \o q.c.variant, defaults, r.result, r.ret, r.ctor)
       /\ store' =
            [store EXCEPT
               !.bytes  = IF rec /\ r.result = "ok" /\ r.ret.src = "bump"
                          THEN fill(@, r.ret.addr, r.ret.size,
                                    IF q.c.variant = "alloc_array" THEN 0 ELSE 1)
                          ELSE @,
               !.served = IF rec /\ r.result = "ok" /\ r.ret.src = "bump" /\ r.ret.size > 0
                          THEN [@ EXCEPT ![o] = Append(@, [addr  |-> r.ret.addr,
                                                           size  |-> r.ret.size,
                                                           align |-> q.T.align])]
                          ELSE @,
               !.this   = o,
               !.can    = rec /\ can_allocate(Object(o), q.T.size, q.T.align)]
    /\ UNCHANGED <<allocatorAMC, heapVars, loopVars, threadVars, formatVars, guardVars, hist, arrayVars>>

\* BumpAllocator::reset() on the object o
Arena_reset(o) ==
    /\ Object(o).built
    /\ bump' = IF o = "bump" THEN reset(bump) ELSE bump
    /\ other' = IF o = "other" THEN reset(other) ELSE other
    /\ calls' = <<>>
    /\ op' = Op("bump_reset", defaults, "ok", NoAddr, 0)
    /\ store' = [store EXCEPT !.served[o] = <<>>, !.this = o]
    /\ UNCHANGED <<allocator, allocatorAMC, mps, heapVars, loopVars, threadVars, formatVars,
                   guardVars, hist, arrayVars>>

\* BumpAllocator::clear() on the object o
Arena_clear(o) ==
    /\ Object(o).built
    /\ bump' = IF o = "bump" THEN clear(bump) ELSE bump
    /\ other' = IF o = "other" THEN clear(other) ELSE other
    /\ calls' = <<"memset">>
    /\ op' = Op("bump_clear", defaults, "ok", NoAddr, 0)
    /\ store' = [store EXCEPT !.bytes = clear_bytes(@, Object(o)),
                              !.served[o] = <<>>, !.this = o]
    /\ UNCHANGED <<allocator, allocatorAMC, mps, heapVars, loopVars, threadVars, formatVars,
                   guardVars, hist, arrayVars>>

\* BumpAllocator o(std::move(from)): o is constructed from the object from
Arena_move_ctor(o, from) ==
    /\ o # from
    /\ ~Object(o).built
    /\ Object(from).built
    /\ \E r \in {move(Object(o), Object(from))} :
       /\ bump' = IF o = "bump" THEN r.this ELSE r.other
       /\ other' = IF o = "other" THEN r.this ELSE r.other
    /\ calls' = <<>>
    /\ op' = Op("bump_move_ctor", defaults, "ok", NoAddr, 0)
    /\ store' = [store EXCEPT !.served = [@ EXCEPT ![o] = store.served[from],
                                                   ![from] = <<>>],
                              !.this = o]
    /\ UNCHANGED <<allocator, allocatorAMC, mps, heapVars, loopVars, threadVars, formatVars,
                   guardVars, hist, arrayVars>>

\* o = std::move(from); from may be o itself
Arena_move_assign(o, from) ==
    /\ Object(o).built
    /\ Object(from).built
    /\ \E r \in {move(Object(o), Object(from))} :
       /\ bump' = IF o = from THEN bump ELSE IF o = "bump" THEN r.this ELSE r.other
       /\ other' = IF o = from THEN other ELSE IF o = "other" THEN r.this ELSE r.other
    /\ calls' = <<>>
    /\ op' = Op("bump_move_assign", defaults, "ok", NoAddr, 0)
    /\ store' = IF o # from
                THEN [store EXCEPT !.served = [@ EXCEPT ![o] = store.served[from],
                                                        ![from] = <<>>],
                                   !.this = o]
                ELSE [store EXCEPT !.this = o]
    /\ UNCHANGED <<allocator, allocatorAMC, mps, heapVars, loopVars, threadVars, formatVars,
                   guardVars, hist, arrayVars>>

\* BumpAllocator::~BumpAllocator() = default: the object o ends, its buffer
\* stays with the MPS
Arena_dtor(o) ==
    /\ Object(o).built
    /\ bump' = IF o = "bump" THEN Bump0 ELSE bump
    /\ other' = IF o = "other" THEN Bump0 ELSE other
    /\ calls' = <<>>
    /\ op' = Op("bump_dtor", defaults, "ok", NoAddr, 0)
    /\ store' = [store EXCEPT !.served[o] = <<>>, !.this = o]
    /\ UNCHANGED <<allocator, allocatorAMC, mps, heapVars, loopVars, threadVars, formatVars,
                   guardVars, hist, arrayVars>>

-----------------------------------------------------------------------------
(* alloc_array<T>(count) of the three allocators for every count a size_t  *)
(* holds, on a machine whose size_t and pointers have WordBits bits: what  *)
(* the call reserved for the elements and how many it constructed.  What   *)
(* a call computes depends on nothing an earlier call left, so each is     *)
(* taken from the state before any call.                                   *)

\* bits of size_t and of a pointer
WordBits == 8

SizeMax == 2 ^ WordBits

\* unsigned arithmetic of size_t and uintptr_t
Wrap(n) == n % SizeMax

\* (n + a - 1) & ~(a - 1) on a size_t
AlignUpWrap(n, a) == (Wrap(n + a - 1) \div a) * a

\* every count and the types of the elements, a char among them
Counts == 0..(SizeMax - 1)

ArrayTypes == ArenaTypes \cup {[size |-> 1, align |-> 1]}

\* the states of the cursor of a BumpAllocator over [72, 72 + MaxBumpBytes)
Cursors == {[current_ |-> base + k, end_ |-> base + MaxBumpBytes] :
               base \in Bases, k \in {0, 4, MaxBumpBytes}}

Arr0 == [fn |-> "none", T |-> [size |-> 1, align |-> 1], count |-> 0, result |-> "ok",
         reserved |-> 0, constructed |-> 0]

ArrayCall(fn, T, count, result, reserved, constructed) ==
    [fn |-> fn, T |-> T, count |-> count, result |-> result, reserved |-> reserved,
     constructed |-> constructed]

\* Allocator::alloc_array<T>(count) once initialized; ok: mps_alloc
\* returned MPS_RES_OK
array_alloc(T, count, ok) ==
    LET size == AlignUpWrap(Wrap(T.size * count), PointerSize) IN
    IF ~ok THEN ArrayCall("alloc_array", T, count, "bad_alloc", 0, 0)
    ELSE ArrayCall("alloc_array", T, count, "ok", size, count)

\* AllocatorAMC::alloc_array<T>(count) once initialized; ok: mps_reserve
\* returned MPS_RES_OK; what is reserved for the elements follows the header
amc_array_alloc(T, count, ok) ==
    LET object_size == Wrap(T.size * count)
        total_size  == AlignUpWrap(Wrap(header_size + object_size), PointerSize)
    IN  IF ~ok THEN ArrayCall("amc_alloc_array", T, count, "bad_alloc", 0, 0)
        ELSE ArrayCall("amc_alloc_array", T, count, "ok", total_size - header_size, count)

\* BumpAllocator::alloc_array<T>(count) with the cursor at b; aligned + size
\* beyond the address space is pointer arithmetic without a defined result,
\* past: the comparison with end_ then came out true
bump_array_alloc(b, T, count, ok, past) ==
    LET size    == Wrap(T.size * count)
        aligned == AlignUpWrap(b.current_, T.align)
        full    == IF aligned + size >= SizeMax THEN past ELSE aligned + size > b.end_
    IN  IF full THEN [array_alloc(T, count, ok) EXCEPT !.fn = "bump_alloc_array:pool"]
        ELSE ArrayCall("bump_alloc_array", T, count, "ok", size, count)

Array_alloc(T, count, ok) ==
    /\ arr.fn = "none"
    /\ arr' = array_alloc(T, count, ok)
    /\ UNCHANGED <<lifeVars, op, heapVars, loopVars, threadVars, formatVars, guardVars, arenaVars>>

Array_amc_alloc(T, count, ok) ==
    /\ arr.fn = "none"
    /\ arr' = amc_array_alloc(T, count, ok)
    /\ UNCHANGED <<lifeVars, op, heapVars, loopVars, threadVars, formatVars, guardVars, arenaVars>>

Array_bump_alloc(b, T, count, ok, past) ==
    /\ arr.fn = "none"
    /\ arr' = bump_array_alloc(b, T, count, ok, past)
    /\ UNCHANGED <<lifeVars, op, heapVars, loopVars, threadVars, formatVars, guardVars, arenaVars>>

-----------------------------------------------------------------------------
(* class ThreadBumpAllocator: a thread_local BumpAllocator per thread.     *)
(* Nothing in the three classes locks or orders the threads, so a call is  *)
(* taken one access to Allocator's static members at a time.               *)

\* threads of the program
MaxThreads == 2

Threads == 1..MaxThreads

Thread0 == [at |-> "idle", want |-> "none", allocator_ |-> Bump0]

Handles0 == [pool |-> 0, thread |-> 0, thread_root |-> 0]

\* the address at which the MPS places the buffer of thread t
ThreadBase(t) == 72 + (MaxBumpBytes + PointerSize) * (t - 1)

\* the static members of Allocator the step at a position reads
Reads(at) ==
    CASE at = "test_initialized" -> {"initialized"}
      [] at = "init_guard"       -> {"initialized"}
      [] at = "arena_create"     -> {"config"}
      [] at = "pool_create"      -> {"arena"}
      [] at = "thread_reg"       -> {"arena"}
      [] at = "root_create"      -> {"arena", "thread"}
      [] at = "mps_alloc"        -> {"pool"}
      [] OTHER                   -> {}

\* the static members of Allocator the step at a position writes
Writes(at) ==
    CASE at = "store_config"    -> {"config"}
      [] at = "arena_create"    -> {"arena"}
      [] at = "pool_create"     -> {"pool"}
      [] at = "thread_reg"      -> {"thread"}
      [] at = "root_create"     -> {"thread_root"}
      [] at = "set_initialized" -> {"initialized"}
      [] OTHER                  -> {}

ThreadFrame == UNCHANGED <<allocatorAMC, bump, calls, op, heapVars, loopVars, hist, formatVars,
                         guardVars, arenaVars, arrayVars>>

\* first use of ThreadBumpAllocator by thread t: allocator_(64 * 1024) is
\* constructed and calls Allocator::alloc_array<char>
Thread_first_use(t) ==
    /\ threads[t].at = "idle"
    /\ ~threads[t].allocator_.built
    /\ threads' = [threads EXCEPT ![t].at = "test_initialized", ![t].want = "ctor"]
    /\ UNCHANGED <<allocator, mps, handles, arenaVars, arrayVars>>
    /\ ThreadFrame

\* ThreadBumpAllocator::alloc<T>(): in the arena of the thread, or on to
\* Allocator::alloc<T> when the arena is exhausted
Thread_alloc(t, T) ==
    /\ threads[t].at = "idle"
    /\ threads[t].allocator_.built
    /\ \E b \in {threads[t].allocator_} :
       \E aligned \in {AlignUp(b.current_, T.align)} :
          threads' = IF Exhausted(b, aligned, T.size)
                     THEN [threads EXCEPT ![t].at = "test_initialized", ![t].want = "alloc"]
                     ELSE [threads EXCEPT ![t].allocator_.current_ = aligned + T.size]
    /\ UNCHANGED <<allocator, mps, handles, arenaVars, arrayVars>>
    /\ ThreadFrame

\* ThreadBumpAllocator::reset()
Thread_reset(t) ==
    /\ threads[t].at = "idle"
    /\ threads[t].allocator_.built
    /\ threads' = [threads EXCEPT ![t].allocator_ = reset(@)]
    /\ UNCHANGED <<allocator, mps, handles, arenaVars, arrayVars>>
    /\ ThreadFrame

\* ThreadBumpAllocator::clear()
Thread_clear(t) ==
    /\ threads[t].at = "idle"
    /\ threads[t].allocator_.built
    /\ threads' = [threads EXCEPT ![t].allocator_ = clear(@)]
    /\ UNCHANGED <<allocator, mps, handles, arenaVars, arrayVars>>
    /\ ThreadFrame

\* if (!initialized) init(); in Allocator::alloc and alloc_array
Thread_test_initialized(t) ==
    /\ threads[t].at = "test_initialized"
    /\ threads' = [threads EXCEPT ![t].at = IF allocator.initialized THEN "mps_alloc"
                                            ELSE "init_guard"]
    /\ UNCHANGED <<allocator, mps, handles, arenaVars, arrayVars>>
    /\ ThreadFrame

\* if (initialized) return; in Allocator::init
Thread_init_guard(t) ==
    /\ threads[t].at = "init_guard"
    /\ threads' = [threads EXCEPT ![t].at = IF allocator.initialized THEN "mps_alloc"
                                            ELSE "store_config"]
    /\ UNCHANGED <<allocator, mps, handles, arenaVars, arrayVars>>
    /\ ThreadFrame

\* config = cfg;
Thread_store_config(t) ==
    /\ threads[t].at = "store_config"
    /\ allocator' = [allocator EXCEPT !.config = defaults]
    /\ threads' = [threads EXCEPT ![t].at = "arena_create"]
    /\ UNCHANGED <<mps, handles, arenaVars, arrayVars>>
    /\ ThreadFrame

\* mps_arena_create_k(&arena, ...), succeeding
Thread_arena_create(t) ==
    /\ threads[t].at = "arena_create"
    /\ mps.next <= MaxArenas
    /\ ArenaCreatable(TRUE, CommitLimitArg(allocator.config))
    /\ mps' = MpsArenaCreate(mps, TRUE, CommitLimitArg(allocator.config))
    /\ allocator' = [allocator EXCEPT !.arena = mps.next]
    /\ threads' = [threads EXCEPT ![t].at = "pool_create"]
    /\ UNCHANGED handles
    /\ ThreadFrame

\* mps_pool_create_k(&pool, arena, ...), succeeding
Thread_pool_create(t) ==
    /\ threads[t].at = "pool_create"
    /\ mps' = MpsCall(mps, allocator.arena, "pool_create")
    /\ handles' = [handles EXCEPT !.pool = allocator.arena]
    /\ threads' = [threads EXCEPT ![t].at = "thread_reg"]
    /\ UNCHANGED allocator
    /\ ThreadFrame

\* mps_thread_reg(&thread, arena), succeeding
Thread_thread_reg(t) ==
    /\ threads[t].at = "thread_reg"
    /\ mps' = MpsCall(mps, allocator.arena, "thread_reg")
    /\ handles' = [handles EXCEPT !.thread = allocator.arena]
    /\ threads' = [threads EXCEPT ![t].at = "root_create"]
    /\ UNCHANGED allocator
    /\ ThreadFrame

\* mps_root_create_thread(&thread_root, arena, thread, &cold), succeeding
Thread_root_create(t) ==
    /\ threads[t].at = "root_create"
    /\ mps' = MpsCall(mps, allocator.arena, "root_create")
    /\ handles' = [handles EXCEPT !.thread_root = allocator.arena]
    /\ threads' = [threads EXCEPT ![t].at = "set_initialized"]
    /\ UNCHANGED allocator
    /\ ThreadFrame

\* initialized = true;
Thread_set_initialized(t) ==
    /\ threads[t].at = "set_initialized"
    /\ allocator' = [allocator EXCEPT !.initialized = TRUE]
    /\ threads' = [threads EXCEPT ![t].at = "mps_alloc"]
    /\ UNCHANGED <<mps, handles, arenaVars, arrayVars>>
    /\ ThreadFrame

\* mps_alloc(&addr, pool, size) and what the caller does with the block: the
\* constructor of allocator_ keeps it as the arena of the thread
Thread_mps_alloc(t, grow) ==
    /\ threads[t].at = "mps_alloc"
    /\ \E r \in {TryAlloc(mps, handles.pool, grow)} :
       /\ mps' = r.mps
       /\ threads' =
            IF r.ok /\ threads[t].want = "ctor"
            THEN [threads EXCEPT
                    ![t] = [at |-> "idle", want |-> "none",
                            allocator_ |->
                                [built |-> TRUE, home |-> handles.pool,
                                 arena_ |-> ThreadBase(t), current_ |-> ThreadBase(t),
                                 end_ |-> ThreadBase(t) + MaxBumpBytes,
                                 arena_size_ |-> MaxBumpBytes]]]
            ELSE [threads EXCEPT ![t].at = "idle", ![t].want = "none"]
    /\ UNCHANGED <<allocator, handles, arenaVars, arrayVars>>
    /\ ThreadFrame

----------------------------------------------------------------------------
(* The object format of the precise pool.  An object is a header of two    *)
(* words, size and type_tag, and its payload; the program's type T is a    *)
(* record of two words, a reference next and an integer data.              *)

\* the lowest address of the pool
HeapBase == 8 * PointerSize

\* sizeof(T): the words next and data
SizeofT == 2 * PointerSize

\* every object of the model has this total_size
ObjBytes == TotalSize(SizeofT, 1)

\* the memory an acyclic heap of MaxObjs objects needs: the objects, and per
\* collection one copy of an object for each path that leads to it
MemBytes == ObjBytes * (MaxObjs + MaxCollects * (2 ^ MaxObjs - 2))

Addrs == {HeapBase + PointerSize * i : i \in 0..((MemBytes \div PointerSize) - 1)}

\* header->size and header->type_tag of the object at addr
HeaderSizeField(m, addr) == m[addr]

HeaderTag(m, addr) == m[addr + PointerSize]

\* format::skip
skip(m, addr) == addr + HeaderSizeField(m, addr)

\* std::memcpy(dst, src, n), word by word
RECURSIVE memcpy(_, _, _, _)
memcpy(m, dst, src, n) ==
    IF n <= 0 THEN m
    ELSE memcpy([m EXCEPT ![dst] = m[src]], dst + PointerSize, src + PointerSize,
                n - PointerSize)

\* a forward that copies the header only
fwd_header_only(m, old_addr, new_addr) == memcpy(m, new_addr, old_addr, header_size)

\* format::fwd
fwd(m, old_addr, new_addr) == memcpy(m, new_addr, old_addr, HeaderSizeField(m, old_addr))

\* an isfwd that answers the tag as it is
isfwd_raw(m, addr) == HeaderTag(m, addr)

\* format::isfwd: 0 is nullptr
isfwd(m, addr) ==
    IF HeaderTag(m, addr) % 2 = 1 THEN HeaderTag(m, addr) - 1 ELSE 0

\* format::pad
pad(m, addr, size) == [m EXCEPT ![addr] = size, ![addr + PointerSize] = 0]

\* the reference the program holds to the object whose header is at base,
\* and back
ClientRef(base) == base + header_size

BaseOf(ref) == ref - header_size

(* The collector.  c is its state during one collection: the memory, the   *)
(* next free address of the space objects are copied to, the headers of    *)
(* the condemned objects, the condemned objects kept in place because the  *)
(* stack refers to them, and the copies still to be scanned.               *)

\* MPS_FIX12(ss, &ref): a word that is the reference of a condemned object
\* is taken for a reference to it.  The object, unless kept in place or
\* already forwarded, is copied to new space and format::fwd is called.
Fix(c, ref) ==
    IF BaseOf(ref) \notin c.condemned \/ BaseOf(ref) \in c.pinned
    THEN [c |-> c, ref |-> ref]
    ELSE LET old == BaseOf(ref)
             f   == isfwd(c.mem, old)
             n   == skip(c.mem, old) - old
         IN  IF f # 0
             THEN [c |-> c, ref |-> ClientRef(f)]
             ELSE [c   |-> [c EXCEPT !.mem   = fwd(memcpy(c.mem, c.top, old, n), old, c.top),
                                     !.top   = c.top + n,
                                     !.grey  = Append(c.grey, c.top),
                                     !.moved = @ \cup {old}],
                   ref |-> ClientRef(c.top)]

\* the loop of format::scan: while (p < p_end) { ref = *p; FIX; *p = ref; ++p; }
RECURSIVE ScanWords(_, _, _)
ScanWords(c, p, p_end) ==
    IF p >= p_end THEN c
    ELSE LET r == Fix(c, c.mem[p]) IN
         ScanWords([r.c EXCEPT !.mem[p] = r.ref,
                               !.visited = Append(@, [p |-> p, in |-> c.mem[p],
                                                      out |-> r.ref])],
                   p + PointerSize, p_end)

\* a scan that starts at the header
scan_from_header(c, base, limit) ==
    ScanWords(c, base, base + HeaderSizeField(c.mem, base))

\* format::scan(ss, base, limit)
scan(c, base, limit) ==
    ScanWords(c, base + header_size, base + HeaderSizeField(c.mem, base))

\* the MPS scans what is grey: first the objects kept in place, one call of
\* format::scan each, then the copies.  The copies lie one after the other
\* in new space; the MPS hands them to format::scan either one by one or
\* (batch) as one block [base, limit) and then takes every object of the
\* block for scanned.
RECURSIVE ScanGrey(_, _)
ScanGrey(c, batch) ==
    IF c.grey = <<>> THEN c
    ELSE LET base  == Head(c.grey)
             limit == IF batch /\ base \notin c.pinned THEN c.top
                      ELSE skip(c.mem, base)
             rest  == SelectSeq(Tail(c.grey),
                                LAMBDA b : b \in c.pinned \/ b < base \/ b >= limit)
         IN  ScanGrey(scan([c EXCEPT !.grey = rest], base, limit), batch)

\* the MPS turns every condemned object that was not kept into padding
RECURSIVE PadDead(_, _)
PadDead(m, dead) ==
    IF dead = {} THEN m
    ELSE LET addr == CHOOSE a \in dead : TRUE IN
         PadDead(pad(m, addr, skip(m, addr) - addr), dead \ {addr})

\* the headers of the objects in [from, to), found with format::skip
RECURSIVE Walk(_, _, _)
Walk(m, from, to) ==
    IF from >= to \/ from \notin Addrs \/ skip(m, from) <= from THEN {}
    ELSE {from} \cup Walk(m, skip(m, from), to)

SetToSeq(S) ==
    LET RECURSIVE Ordered(_)
        Ordered(R) == IF R = {} THEN <<>>
                      ELSE LET x == CHOOSE y \in R : \A z \in R : y <= z
                           IN  <<x>> \o Ordered(R \ {x})
    IN  Ordered(S)

\* mps_arena_collect on the precise pool
Collection(m, t, roots, batch) ==
    LET condemned == Walk(m, HeapBase, t)
        pinned    == {b \in condemned : ClientRef(b) \in roots}
        c         == ScanGrey([mem |-> m, top |-> t, condemned |-> condemned,
                               pinned |-> pinned, grey |-> SetToSeq(pinned),
                               moved |-> {}, visited |-> <<>>], batch)
    IN  [mem   |-> PadDead(c.mem, condemned \ pinned),
         top   |-> c.top,
         moved |-> c.moved,
         live  |-> pinned \cup Walk(c.mem, t, c.top)]

\* AllocatorAMC::alloc<T>(next, data) at the level of memory: reserve at
\* top, write the header, zero the payload, construct T, commit
alloc_words(m, t, next, data) ==
    LET total  == TotalSize(SizeofT, 1)
        object == t + header_size
        m1     == [m EXCEPT ![t] = total, ![t + PointerSize] = 0]
        m2     == [m1 EXCEPT ![object] = 0, ![object + PointerSize] = 0]
        m3     == [m2 EXCEPT ![object] = next, ![object + PointerSize] = data]
    IN  [mem |-> m3, top |-> t + total, ret |-> object]

\* an integer that is no address of the pool
SomeInt == 7

\* the integers the program stores: one that is no address and those that
\* equal the address of an object allocated before
Ints == {SomeInt} \cup {objs[i].ref : i \in 1..Len(objs)}

\* the object the reference ref was returned for, 0 for nullptr
ObjOf(ref) ==
    IF ref = 0 THEN 0 ELSE CHOOSE i \in 1..Len(objs) : objs[i].ref = ref

Heap_alloc(next, data, keep) ==
    /\ Len(objs) < MaxObjs
    /\ ncollect = 0
    /\ next \in slots \cup {0}
    /\ data \in Ints
    /\ \E r \in {alloc_words(mem, top, next, data)} :
       /\ mem' = r.mem
       /\ top' = r.top
       /\ slots' = IF keep THEN slots \cup {r.ret} ELSE slots
       /\ objs' = Append(objs, [ref |-> r.ret, next |-> ObjOf(next), data |-> data])
       /\ op' = Op("heap_alloc", defaults, "ok",
                   [arena |-> 0, src |-> "pool", state |-> "Committed",
                    size |-> TotalSize(SizeofT, 1), tag |-> 0, addr |-> r.ret], 1)
    /\ UNCHANGED <<lifeVars, loopVars, threadVars, formatVars, guardVars, ncollect, gc, arenaVars, arrayVars>>

\* a reference leaves the stack
Heap_drop(ref) ==
    /\ ref \in slots
    /\ slots' = slots \ {ref}
    /\ op' = Op("heap_drop", defaults, "ok", NoAddr, 0)
    /\ UNCHANGED <<lifeVars, loopVars, threadVars, formatVars, guardVars, mem, top, objs, ncollect, gc, arenaVars, arrayVars>>

Heap_collect(batch) ==
    /\ ncollect < MaxCollects
    /\ objs # <<>>
    /\ \E r \in {Collection(mem, top, slots, batch)} :
       /\ mem' = r.mem
       /\ top' = r.top
       /\ gc' = [moved |-> r.moved, live |-> r.live]
    /\ ncollect' = ncollect + 1
    /\ op' = Op("heap_collect", defaults, "ok", NoAddr, 0)
    /\ UNCHANGED <<lifeVars, loopVars, threadVars, formatVars, guardVars, slots, objs, arenaVars, arrayVars>>

-----------------------------------------------------------------------------
(* class Runtime and class RuntimeAMC: guards.runtime and guards.runtimeAMC *)
(* count the objects of each that are alive.                               *)

\* guard objects of one class alive at a time
MaxGuards == 2

Guards0 == [runtime |-> 0, runtimeAMC |-> 0]

\* Runtime::Runtime(cfg): a constructor that raises leaves no object
Runtime_ctor(cfg, failAt) ==
    /\ guards.runtime < MaxGuards
    /\ CanInit(allocator)
    /\ failAt \in InitFailures(TRUE, cfg.commit_limit, CreateOrder)
    /\ allocator.initialized => failAt = 0
    /\ \E r \in {init(allocator, mps, cfg, failAt)} :
       /\ allocator' = r.alloc
       /\ mps' = r.mps
       /\ calls' = r.calls
       /\ op' = Op("runtime_ctor", cfg, r.result, NoAddr, 0)
       /\ guards' = IF r.result = "runtime_error" THEN guards
                    ELSE [guards EXCEPT !.runtime = @ + 1]
    /\ UNCHANGED <<allocatorAMC, bump, heapVars, loopVars, threadVars, formatVars, hist, arenaVars, arrayVars>>

\* Runtime::~Runtime()
Runtime_dtor ==
    /\ guards.runtime > 0
    /\ \E r \in {shutdown(allocator, mps)} :
       /\ allocator' = r.alloc
       /\ mps' = r.mps
       /\ calls' = r.calls
       /\ op' = Op("runtime_dtor", defaults, r.result, NoAddr, 0)
    /\ guards' = [guards EXCEPT !.runtime = @ - 1]
    /\ UNCHANGED <<allocatorAMC, bump, heapVars, loopVars, threadVars, formatVars, hist, arenaVars, arrayVars>>

\* RuntimeAMC::RuntimeAMC()
RuntimeAMC_ctor(failAt) ==
    /\ guards.runtimeAMC < MaxGuards
    /\ CanInit(allocatorAMC)
    /\ failAt \in InitFailures(FALSE, 0, AmcCreateOrder)
    /\ allocatorAMC.initialized => failAt = 0
    /\ \E r \in {amc_init(allocatorAMC, mps, failAt)} :
       /\ allocatorAMC' = r.alloc
       /\ mps' = r.mps
       /\ calls' = r.calls
       /\ op' = Op("runtimeAMC_ctor", defaults, r.result, NoAddr, 0)
       /\ guards' = IF r.result = "runtime_error" THEN guards
                    ELSE [guards EXCEPT !.runtimeAMC = @ + 1]
    /\ UNCHANGED <<allocator, bump, heapVars, loopVars, threadVars, formatVars, hist, arenaVars, arrayVars>>

\* RuntimeAMC::~RuntimeAMC()
RuntimeAMC_dtor ==
    /\ guards.runtimeAMC > 0
    /\ \E r \in {amc_shutdown(allocatorAMC, mps)} :
       /\ allocatorAMC' = r.alloc
       /\ mps' = r.mps
       /\ calls' = r.calls
       /\ op' = Op("runtimeAMC_dtor", defaults, r.result, NoAddr, 0)
    /\ guards' = [guards EXCEPT !.runtimeAMC = @ - 1]
    /\ UNCHANGED <<allocator, bump, heapVars, loopVars, threadVars, formatVars, hist, arenaVars, arrayVars>>


-----------------------------------------------------------------------------
(* The format functions one call at a time.  The region [HeapBase, top) is *)
(* filled from the left by precise allocations, by the copies the          *)
(* collector makes and by padding objects; fmt.starts lists the headers    *)
(* of its objects and fmt.call is the last call.  The program fills the    *)
(* region; then the collector makes its calls, ncollect counts them.       *)

\* bytes of the region the format functions are called on
MaxFormatBytes == 48

FormatLimit == HeapBase + MaxFormatBytes

NoCall == [name |-> "none", addr |-> 0, arg |-> 0, result |-> 0, req |-> <<>>,
           visited |-> <<>>]

Fmt0 == [call |-> NoCall, starts |-> <<>>]

FormatCall(name, addr, arg, result, req, visited) ==
    [name |-> name, addr |-> addr, arg |-> arg, result |-> result, req |-> req,
     visited |-> visited]

Range(seq) == {seq[i] : i \in 1..Len(seq)}

\* a word whose k low bytes were set to zero, and the k low bytes of a word;
\* the words of the model are below 256^3
ZeroLow(v, k) == IF k >= 3 THEN 0 ELSE (v \div (256 ^ k)) * (256 ^ k)

LowBytes(v, k) == IF k >= 3 THEN v ELSE v % (256 ^ k)

\* std::memset(object, 0, n) on words: a word the n bytes end in keeps its
\* other bytes
memset0(m, object, n) ==
    [a \in Addrs |->
        IF a < object \/ a >= object + n THEN m[a]
        ELSE IF a + PointerSize <= object + n THEN 0
        ELSE ZeroLow(m[a], object + n - a)]

\* new(object) T(args...): the n bytes of T, as far as they lie in the first
\* word, take the bytes of data
construct(m, object, n, data) ==
    IF n = 0 THEN m
    ELSE IF n >= PointerSize THEN [m EXCEPT ![object] = data]
    ELSE [m EXCEPT ![object] = ZeroLow(@, n) + LowBytes(data, n)]

\* an allocation whose header counts the payload only
amc_write_payload_only(m, addr, variant, sizeofT, count, data) ==
    LET object_size == sizeofT * count
        object      == addr + header_size
        m1          == [m EXCEPT ![addr] = AlignUp(object_size, PointerSize),
                                 ![addr + PointerSize] = 0]
        m2          == memset0(m1, object, object_size)
        m3          == IF variant = "alloc_args" THEN construct(m2, object, sizeofT, data)
                       ELSE m2
    IN  [mem |-> m3, limit |-> addr + TotalSize(sizeofT, count),
         ret |-> addr + header_size]

\* the pass of AllocatorAMC::alloc<T>(args...), alloc<T>() or
\* alloc_array<T>(count) whose commit succeeds, on the memory: addr is the
\* address mps_reserve returned; T() leaves the zeros of the memset
amc_write(m, addr, variant, sizeofT, count, data) ==
    LET object_size == sizeofT * count
        total_size  == TotalSize(sizeofT, count)
        object      == addr + header_size
        m1          == [m EXCEPT ![addr] = total_size, ![addr + PointerSize] = 0]
        m2          == memset0(m1, object, object_size)
        m3          == IF variant = "alloc_args" THEN construct(m2, object, sizeofT, data)
                       ELSE m2
    IN  [mem |-> m3, limit |-> addr + total_size, ret |-> addr + header_size]

\* the values a constructor stores: integers and references to objects
FormatData == {SomeInt} \cup {ClientRef(b) : b \in Range(fmt.starts)}

\* the sizes of the padding objects the collector asks for: the multiples of
\* the alignment of the format
PadSizes == {PointerSize * k : k \in 1..(MaxFormatBytes \div PointerSize)}

Format_alloc(c, T, data) ==
    /\ ncollect = 0
    /\ ~c.trivial
    /\ data \in FormatData
    /\ top + TotalSize(T.size, c.count) <= FormatLimit
    /\ \E r \in {amc_write(mem, top, c.variant, T.size, c.count, data)} :
       /\ mem' = r.mem
       /\ top' = r.limit
       /\ fmt' = [call   |-> FormatCall("alloc", top, 0, r.ret,
                                        [variant |-> c.variant, T |-> T, count |-> c.count],
                                        <<>>),
                  starts |-> Append(fmt.starts, top)]
    /\ UNCHANGED <<lifeVars, op, loopVars, threadVars, guardVars, slots, objs, ncollect, gc, arenaVars, arrayVars>>

\* format::pad(addr, size): the collector fills what is left of a buffer, at
\* top, or replaces the object at addr
Format_pad(addr, size) ==
    /\ \/ addr = top /\ size \in PadSizes /\ top + size <= FormatLimit /\ ncollect = 0
       \/ addr \in Range(fmt.starts) /\ size = skip(mem, addr) - addr
          /\ ncollect < MaxCollects
    /\ mem' = pad(mem, addr, size)
    /\ top' = IF addr = top THEN top + size ELSE top
    /\ ncollect' = IF addr = top THEN ncollect ELSE ncollect + 1
    /\ fmt' = [call   |-> FormatCall("pad", addr, size, 0, <<>>, <<>>),
               starts |-> IF addr = top THEN Append(fmt.starts, top) ELSE fmt.starts]
    /\ UNCHANGED <<lifeVars, op, loopVars, threadVars, guardVars, slots, objs, gc, arenaVars, arrayVars>>

\* format::skip(addr)
Format_skip(addr) ==
    /\ addr \in Range(fmt.starts)
    /\ ncollect < MaxCollects
    /\ ncollect' = ncollect + 1
    /\ fmt' = [fmt EXCEPT !.call = FormatCall("skip", addr, 0, skip(mem, addr), <<>>,
                                              <<>>)]
    /\ UNCHANGED <<lifeVars, op, loopVars, threadVars, guardVars, mem, top, slots, objs, gc, arenaVars, arrayVars>>

\* format::isfwd(addr): it reads the two words at addr, whatever they hold
Format_isfwd(addr) ==
    /\ addr \in Addrs
    /\ HeapBase <= addr /\ addr + header_size <= top
    /\ ncollect < MaxCollects
    /\ ncollect' = ncollect + 1
    /\ fmt' = [fmt EXCEPT !.call = FormatCall("isfwd", addr, 0, isfwd(mem, addr), <<>>,
                                              <<>>)]
    /\ UNCHANGED <<lifeVars, op, loopVars, threadVars, guardVars, mem, top, slots, objs, gc, arenaVars, arrayVars>>

\* format::fwd(old_addr, new_addr): the collector moves the object at
\* old_addr to the free space at top
Format_fwd(old_addr) ==
    /\ old_addr \in Range(fmt.starts)
    /\ ncollect < MaxCollects
    /\ ncollect' = ncollect + 1
    /\ mem' = fwd(mem, old_addr, top)
    /\ top' = top + (skip(mem, old_addr) - old_addr)
    /\ fmt' = [call   |-> FormatCall("fwd", old_addr, top, 0, <<>>, <<>>),
               starts |-> Append(fmt.starts, top)]
    /\ UNCHANGED <<lifeVars, op, loopVars, threadVars, guardVars, slots, objs, gc, arenaVars, arrayVars>>

\* format::scan(ss, base, limit): the block [base, limit) holds one object
\* or more; the collector is moving the objects in condemned
Format_scan(base, limit, condemned) ==
    /\ base \in Range(fmt.starts)
    /\ limit \in {skip(mem, b) : b \in {x \in Range(fmt.starts) : x >= base}}
    /\ condemned \in {{}, {b \in Range(fmt.starts) : b < base \/ b >= limit}}
    /\ ncollect < MaxCollects
    /\ ncollect' = ncollect + 1
    /\ \E c \in {scan([mem |-> mem, top |-> top, condemned |-> condemned, pinned |-> {},
                       grey |-> <<>>, moved |-> {}, visited |-> <<>>], base, limit)} :
       /\ mem' = c.mem
       /\ top' = c.top
       /\ fmt' = [call   |-> FormatCall("scan", base, limit, 0, <<>>, c.visited),
                  starts |-> fmt.starts \o c.grey]
    /\ UNCHANGED <<lifeVars, op, loopVars, threadVars, guardVars, slots, objs, gc, arenaVars, arrayVars>>

----------------------------------------------------------------------------
Init ==
    /\ allocator = Allocator0
    /\ allocatorAMC = AllocatorAMC0
    /\ bump = Bump0
    /\ mps = MpsInit
    /\ calls = <<>>
    /\ op = Op("none", defaults, "ok", NoAddr, 0)
    /\ mem = [a \in Addrs |-> 0]
    /\ top = HeapBase
    /\ slots = {}
    /\ objs = <<>>
    /\ ncollect = 0
    /\ pc = PcIdle
    /\ gc = [moved |-> {}, live |-> {}]
    /\ hist = NoHist
    /\ threads = [t \in Threads |-> Thread0]
    /\ handles = Handles0
    /\ fmt = Fmt0
    /\ guards = Guards0
    /\ other = Bump0
    /\ store = Store0
    /\ arr = Arr0

AllocatorNext ==
    \/ \E cfg \in Configs, failAt \in 0..4 : Allocator_init(cfg, failAt)
    \/ Allocator_shutdown
    \/ \E c \in Calls, T \in Types, failAt \in 0..4, grow \in BOOLEAN :
          Allocator_alloc(c, T, failAt, grow)
    \/ \E release \in BOOLEAN : Allocator_collect(release)

AllocatorAMCNext ==
    \/ \E failAt \in 0..5 : AllocatorAMC_init(failAt)
    \/ AllocatorAMC_shutdown
    \/ \E c \in Calls, T \in Types, failAt \in 0..5, outs \in AnswerSeqs :
          AllocatorAMC_alloc(c, T, failAt, outs)
    \/ \E release \in BOOLEAN : AllocatorAMC_collect(release)

BumpNext ==
    \/ \E n \in Capacities, base \in Bases, failAt \in 0..4, grow \in BOOLEAN :
          BumpAllocator_ctor(n, base, failAt, grow)
    \/ \E q \in BumpRequests(bump, allocator, mps) : BumpAllocator_alloc(q)
    \/ BumpAllocator_reset
    \/ BumpAllocator_clear

HeapNext ==
    \/ \E next \in Addrs \cup {0}, data \in Addrs \cup {SomeInt}, keep \in BOOLEAN :
          Heap_alloc(next, data, keep)
    \/ \E ref \in Addrs : Heap_drop(ref)
    \/ \E batch \in BOOLEAN : Heap_collect(batch)

\* the two pool strategies side by side
Next == AllocatorNext \/ AllocatorAMCNext

Spec == Init /\ [][Next]_vars

\* a BumpAllocator over the conservative pool it takes its buffer from
NextBump == AllocatorNext \/ BumpNext

SpecBump == Init /\ [][NextBump]_vars

HistNext ==
    \/ \E n \in Capacities, base \in Bases, failAt \in 0..4, grow \in BOOLEAN :
          BumpAllocator_ctor(n, base, failAt, grow)
    \/ \E q \in BumpRequests(bump, allocator, mps) : BumpAllocator_alloc_hist(q)
    \/ BumpAllocator_reset
    \/ BumpAllocator_clear

\* one BumpAllocator from its construction on, its allocations remembered
SpecHist == Init /\ [][HistNext]_vars

ThreadNext ==
    \E t \in Threads :
        \/ Thread_first_use(t)
        \/ \E T \in BumpTypes : Thread_alloc(t, T)
        \/ Thread_reset(t)
        \/ Thread_clear(t)
        \/ Thread_test_initialized(t)
        \/ Thread_init_guard(t)
        \/ Thread_store_config(t)
        \/ Thread_arena_create(t)
        \/ Thread_pool_create(t)
        \/ Thread_thread_reg(t)
        \/ Thread_root_create(t)
        \/ Thread_set_initialized(t)
        \/ \E grow \in BOOLEAN : Thread_mps_alloc(t, grow)

\* the threads of a program that allocates through ThreadBumpAllocator only
SpecThreads == Init /\ [][ThreadNext]_vars

\* the words of the precise pool under allocation and collection
SpecHeap == Init /\ [][HeapNext]_vars

FormatNext ==
    \/ \E c \in Calls, T \in Types, data \in FormatData : Format_alloc(c, T, data)
    \/ \E addr \in Range(fmt.starts) \cup {top}, size \in PadSizes \cup {ObjBytes + PointerSize} :
          Format_pad(addr, size)
    \/ \E addr \in Range(fmt.starts) : Format_skip(addr)
    \/ \E addr \in Addrs : Format_isfwd(addr)
    \/ \E old_addr \in Range(fmt.starts) : Format_fwd(old_addr)
    \/ \E base \in Range(fmt.starts) :
          \E limit \in {skip(mem, b) : b \in Range(fmt.starts)} :
             \E condemned \in {{}, {b \in Range(fmt.starts) : b < base \/ b >= limit}} :
                Format_scan(base, limit, condemned)

\* the format functions as the collector calls them
SpecFormat == Init /\ [][FormatNext]_vars

GuardNext ==
    \/ \E cfg \in Configs, failAt \in 0..4 : Runtime_ctor(cfg, failAt)
    \/ Runtime_dtor
    \/ \E failAt \in 0..5 : RuntimeAMC_ctor(failAt)
    \/ RuntimeAMC_dtor
    \/ \E release \in BOOLEAN : Allocator_collect(release)
    \/ \E release \in BOOLEAN : AllocatorAMC_collect(release)

\* a program that bounds the life of its allocators with guard objects
SpecGuards == Init /\ [][GuardNext]_vars

ArenaNext ==
    \/ \E n \in ArenaCapacities, base \in PoolAddrs, failAt \in 0..4, grow \in BOOLEAN :
          Arena_ctor("bump", n, base, failAt, grow)
    \/ \E q \in ArenaRequests(bump, allocator, mps, ArenaTypes) : Arena_alloc("bump", q, TRUE)
    \/ Arena_reset("bump")
    \/ Arena_clear("bump")

\* one BumpAllocator over the bytes of its buffer
SpecArena == Init /\ [][ArenaNext]_vars

MoveNext ==
    \/ \E o \in Objects, n \in Capacities, base \in PoolAddrs, failAt \in 0..4,
          grow \in BOOLEAN : Arena_ctor(o, n, base, failAt, grow)
    \/ \E o \in Objects : \E q \in ArenaRequests(Object(o), allocator, mps, BumpTypes) :
          Arena_alloc(o, q, FALSE)
    \/ \E o \in Objects : Arena_reset(o)
    \/ \E o \in Objects : Arena_clear(o)
    \/ \E o \in Objects, from \in Objects : Arena_move_ctor(o, from)
    \/ \E o \in Objects, from \in Objects : Arena_move_assign(o, from)
    \/ \E o \in Objects : Arena_dtor(o)

\* two BumpAllocators, constructed, used, moved and ended
SpecMove == Init /\ [][MoveNext]_vars

ArrayNext ==
    \/ \E T \in ArrayTypes, count \in Counts, ok \in BOOLEAN : Array_alloc(T, count, ok)
    \/ \E T \in ArrayTypes, count \in Counts, ok \in BOOLEAN : Array_amc_alloc(T, count, ok)
    \/ \E b \in Cursors, T \in ArrayTypes, count \in Counts, ok \in BOOLEAN,
          past \in BOOLEAN : Array_bump_alloc(b, T, count, ok, past)

\* alloc_array of the three allocators over every count
SpecArray == Init /\ [][ArrayNext]_vars

LoopNext ==
    \/ \E c \in Calls, T \in Types, failAt \in 0..5 : Loop_call(c, T, failAt)
    \/ \E grow \in BOOLEAN : Loop_reserve(grow)
    \/ \E committed \in BOOLEAN : Loop_commit(committed)
    \/ pc.at = "idle" /\ AllocatorAMC_shutdown
    \/ pc.at = "idle" /\ \E release \in BOOLEAN : AllocatorAMC_collect(release)

\* a precise allocation pass by pass.  The thread that called runs on (weak
\* fairness of the passes), and the collector does not refuse every commit
\* (strong fairness of the commit that succeeds).
SpecLoop ==
    /\ Init
    /\ [][LoopNext]_vars
    /\ WF_vars(\E grow \in BOOLEAN : Loop_reserve(grow))
    /\ WF_vars(\E committed \in BOOLEAN : Loop_commit(committed))
    /\ SF_vars(Loop_commit(TRUE))

----------------------------------------------------------------------------
(* Properties *)

ConsAllocOps == {"alloc_args", "alloc", "alloc_array"}

AmcAllocOps == {"amc_alloc_args", "amc_alloc", "amc_alloc_array"}

\* the positions of call c in the calls of the last operation
Pos(c) == {i \in 1..Len(calls) : calls[i] = c}

\* every c1 of the last operation comes before every c2
Before(c1, c2) == \A i \in Pos(c1), j \in Pos(c2) : i < j

Last(seq) == seq[Len(seq)]

RECURSIVE Reverse(_)
Reverse(seq) == IF seq = <<>> THEN <<>> ELSE Reverse(Tail(seq)) \o <<Head(seq)>>

\* the call that destroys what a creation step created
Destroyer(c) ==
    CASE c = "arena_create" -> "arena_destroy"
      [] c = "pool_create"  -> "pool_destroy"
      [] c = "thread_reg"   -> "thread_dereg"
      [] c = "root_create"  -> "root_destroy"
      [] c = "fmt_create"   -> "fmt_destroy"

Teardown(order) == Reverse([i \in 1..Len(order) |-> Destroyer(order[i])])

\* the arenas of the allocators that are initialized
OwnedArenas ==
    (IF allocator.initialized THEN {allocator.arena} ELSE {})
    \cup (IF allocatorAMC.initialized THEN {allocatorAMC.arena} ELSE {})

\* C1: init is idempotent: an init(C2) made while the allocator is initialized
\* (by an init(C1) or by an allocation call) makes no MPS call, creates no
\* arena, pool or root, and leaves committed_memory() and the stored
\* configuration as they were; the same holds of AllocatorAMC::init.
C1_InitIdempotent ==
    [][/\ (op'.name = "init" /\ allocator.initialized) =>
              /\ calls' = <<>>
              /\ mps' = mps
              /\ allocator' = allocator
              /\ committed_memory(allocator', mps') = committed_memory(allocator, mps)
       /\ (op'.name = "amc_init" /\ allocatorAMC.initialized) =>
              /\ calls' = <<>>
              /\ mps' = mps
              /\ allocatorAMC' = allocatorAMC]_vars

\* a second init, with another configuration, after memory was committed
C1_Witness ==
    /\ op.name = "init"
    /\ op.result = "noop"
    /\ allocator.initialized
    /\ op.cfg # allocator.config
    /\ committed_memory(allocator, mps) > ArenaOverheadMiB

\* C2: while an allocator is initialized its committed memory is at most the
\* commit limit of its configuration; AllocatorAMC::init() takes no
\* configuration, so its configuration is the default one.
C2_CommittedWithinLimit ==
    /\ allocator.initialized =>
           committed_memory(allocator, mps) <= allocator.config.commit_limit
    /\ allocatorAMC.initialized =>
           amc_committed_memory(allocatorAMC, mps) <= defaults.commit_limit

\* C3: no allocation call returns storage that lies in an arena that has
\* been destroyed.
C3_NothingServedFromDestroyedArena ==
    op.ret # NoAddr => op.ret.arena \in LiveArenas(mps)

\* C4: an allocation call that raises has run no constructor and leaves the
\* initialized flag, the configuration and committed_memory() as they were.
C4_FailsBeforeAnySideEffect ==
    [][/\ (op'.name \in ConsAllocOps /\ op'.result # "ok") =>
              /\ op'.ctor = 0
              /\ allocator'.initialized = allocator.initialized
              /\ allocator'.config = allocator.config
              /\ committed_memory(allocator', mps') = committed_memory(allocator, mps)
       /\ (op'.name \in AmcAllocOps /\ op'.result # "ok") =>
              /\ op'.ctor = 0
              /\ allocatorAMC'.initialized = allocatorAMC.initialized
              /\ amc_committed_memory(allocatorAMC', mps')
                     = amc_committed_memory(allocatorAMC, mps)]_vars

\* the integer of object g and of every object its references lead to,
\* read through the reference ref, is the integer the program stored
RECURSIVE ReadsBack(_, _)
ReadsBack(g, ref) ==
    /\ ref \in Addrs
    /\ mem[ref + PointerSize] = objs[g].data
    /\ objs[g].next # 0 => ReadsBack(objs[g].next, mem[ref])

\* C5: every object reachable from the stack reads back, through the
\* references as the collection left them, the values that were stored in
\* it: the words that are no references are unchanged.
C5_RoundTrip ==
    \A ref \in slots : ReadsBack(ObjOf(ref), ref)

\* C6: in a precise allocation a refused commit is followed by a new
\* reservation, every reservation by the writing of the header (size, tag 0)
\* and the construction, and the call returns only an object whose commit
\* succeeded: the last call is the successful commit and the object returned
\* is Committed, never Reserved.
C6_RetryFromReservation ==
    op.name \in AmcAllocOps =>
        /\ \A i \in Pos("mps_commit:fail") :
               i < Len(calls) /\ calls[i + 1] \in {"mps_reserve", "mps_reserve:fail"}
        /\ \A i \in Pos("mps_reserve") :
               i + 2 <= Len(calls) /\ calls[i + 1] = "header" /\ calls[i + 2] = "memset"
        /\ Cardinality(Pos("mps_reserve")) =
               Cardinality(Pos("mps_commit")) + Cardinality(Pos("mps_commit:fail"))
        /\ op.result = "ok" =>
               /\ Last(calls) = "mps_commit"
               /\ op.ret.state = "Committed"
               /\ op.ret.tag = 0
               /\ op.ret.size >= header_size

\* a call that returned after a refused commit
C6_Witness ==
    /\ op.name \in AmcAllocOps
    /\ op.result = "ok"
    /\ op.ret.state = "Committed"
    /\ Pos("mps_commit:fail") # {}

\* C7: a refused commit is never an error of the call: a precise allocation
\* whose initialization and reservations all succeed returns an object,
\* however many commits were refused.
C7_CommitRaceNotAnError ==
    (/\ op.name \in AmcAllocOps
     /\ Pos("mps_reserve:fail") = {}
     /\ \A i \in 1..Len(calls) : calls[i] \notin {c \o ":fail" : c \in
                                                 {AmcCreateOrder[k] : k \in 1..5}})
        => (op.result = "ok" /\ op.ret # NoAddr)

\* a call that returned after as many refused commits as the MPS answers
C7_Witness ==
    /\ op.name \in AmcAllocOps
    /\ op.result = "ok"
    /\ Cardinality(Pos("mps_commit:fail")) = MaxRetries

\* C8: a failed reservation ends the call at once: it is the last call made,
\* the call raises bad_alloc, and an allocation call never asks for a
\* collection.
C8_ExhaustionNotRetried ==
    op.name \in ConsAllocOps \cup AmcAllocOps =>
        /\ \A i \in Pos("mps_alloc:fail") \cup Pos("mps_reserve:fail") :
               i = Len(calls) /\ op.result = "bad_alloc"
        /\ Pos("mps_arena_collect") = {}
        /\ op.result = "bad_alloc" =>
               Last(calls) \in {"mps_alloc:fail", "mps_reserve:fail"}

\* a conservative allocation refused by the commit limit
C8_Witness ==
    /\ op.name \in ConsAllocOps
    /\ op.result = "bad_alloc"
    /\ Last(calls) = "mps_alloc:fail"
    /\ allocator.initialized

\* C9: an init that raises (called directly or by an allocation call) leaves
\* the allocator uninitialized and leaves nothing it created: every live
\* arena, pool, format, thread and root belongs to an initialized allocator.
C9_FailedInitLeavesNothing ==
    op.result = "runtime_error" =>
        /\ op.name \in ConsAllocOps \cup {"init"} => ~allocator.initialized
        /\ op.name \in AmcAllocOps \cup {"amc_init"} => ~allocatorAMC.initialized
        /\ LiveArenas(mps) \subseteq OwnedArenas
        /\ \A r \in mps.res : r[2] \in OwnedArenas

\* an init whose last step, the creation of the root, failed
C9_Witness ==
    /\ op.name = "init"
    /\ op.result = "runtime_error"
    /\ Last(calls) = "arena_destroy"
    /\ Pos("root_create:fail") # {}

\* C10 as stated: both shutdowns destroy the root, then the pool, then the
\* arena.
C10_RootPoolArena ==
    (op.name \in {"shutdown", "amc_shutdown"} /\ op.result = "ok") =>
        /\ Pos("root_destroy") # {} /\ Pos("pool_destroy") # {}
        /\ Pos("arena_destroy") # {}
        /\ Before("root_destroy", "pool_destroy")
        /\ Before("pool_destroy", "arena_destroy")

\* C10 amended: each shutdown destroys what its init created in the reverse
\* order of creation, the arena last: root, pool, arena in Allocator and
\* pool, root, arena in AllocatorAMC.
C10_ReverseOfCreation ==
    /\ (op.name = "shutdown" /\ op.result = "ok") =>
           /\ calls = Teardown(CreateOrder)
           /\ Before("root_destroy", "pool_destroy")
           /\ Before("pool_destroy", "arena_destroy")
    /\ (op.name = "amc_shutdown" /\ op.result = "ok") =>
           /\ calls = Teardown(AmcCreateOrder)
           /\ Before("pool_destroy", "root_destroy")
           /\ Before("root_destroy", "arena_destroy")

\* a shutdown of the precise allocator
C10_Witness ==
    /\ op.name = "amc_shutdown"
    /\ op.result = "ok"
    /\ Last(calls) = "arena_destroy"
    /\ ~allocatorAMC.initialized

\* what an allocator that holds arena a holds in the MPS
Holds(a, kinds) == {<<k, a>> : k \in kinds}

\* C11: shutdown is idempotent: a shutdown of an allocator that is not
\* initialized makes no MPS call and changes nothing; a shutdown of an
\* initialized one finds its arena, pool, thread and root alive, destroys
\* each with one call and leaves none of them, so nothing that was created
\* is destroyed twice.
C11_ShutdownIdempotent ==
    [][/\ (op'.name = "shutdown" /\ ~allocator.initialized) =>
              /\ calls' = <<>>
              /\ mps' = mps
              /\ allocator' = allocator
       /\ (op'.name = "shutdown" /\ allocator.initialized) =>
              /\ allocator.arena \in LiveArenas(mps)
              /\ Holds(allocator.arena, {"pool", "thread", "root"}) \subseteq mps.res
              /\ allocator.arena \notin LiveArenas(mps')
              /\ \A r \in mps'.res : r[2] # allocator.arena
              /\ \A i \in 1..Len(ShutdownOrder) :
                     Cardinality({j \in 1..Len(calls') : calls'[j] = ShutdownOrder[i]}) = 1
       /\ (op'.name = "amc_shutdown" /\ ~allocatorAMC.initialized) =>
              /\ calls' = <<>>
              /\ mps' = mps
              /\ allocatorAMC' = allocatorAMC
       /\ (op'.name = "amc_shutdown" /\ allocatorAMC.initialized) =>
              /\ allocatorAMC.arena \in LiveArenas(mps)
              /\ Holds(allocatorAMC.arena, {"pool", "fmt", "thread", "root"})
                     \subseteq mps.res
              /\ allocatorAMC.arena \notin LiveArenas(mps')
              /\ \A r \in mps'.res : r[2] # allocatorAMC.arena]_vars

\* a shutdown of an allocator that was initialized and shut down before
C11_Witness ==
    /\ op.name = "shutdown"
    /\ op.result = "noop"
    /\ calls = <<>>
    /\ ~allocator.initialized
    /\ allocator.arena # 0
    /\ allocator.arena \notin LiveArenas(mps)

\* a call of the last operation failed
SomeCallFailed(cs) ==
    \E i \in 1..Len(cs) : \E c \in {"arena_create", "pool_create", "thread_reg",
                                    "root_create", "fmt_create"} : cs[i] = c \o ":fail"

\* C12: init, allocate, shutdown cycles carry nothing over: after every
\* shutdown committed_memory() is 0 and the arena with all it committed is
\* gone from the MPS; an init that follows raises only if an MPS call fails,
\* and when it succeeds it holds a new arena that has committed nothing but
\* what its creation commits.
C12_CyclesStartFresh ==
    [][/\ op'.name = "shutdown" =>
              /\ committed_memory(allocator', mps') = 0
              /\ allocator.initialized =>
                     /\ allocator.arena \notin LiveArenas(mps')
                     /\ Committed(mps', LiveArenas(mps'))
                            = Committed(mps, LiveArenas(mps))
                                  - mps.arenas[allocator.arena].committed
       /\ (op'.name = "init" /\ ~allocator.initialized) =>
              IF op'.result = "ok"
              THEN /\ allocator'.initialized
                   /\ allocator'.arena \notin LiveArenas(mps)
                   /\ allocator'.arena # allocator.arena
                   /\ committed_memory(allocator', mps') = ArenaOverheadMiB
              ELSE SomeCallFailed(calls')]_vars

\* the init of a second cycle: the conservative allocator holds the second
\* arena and the precise allocator never created one
C12_Witness ==
    /\ op.name = "init"
    /\ op.result = "ok"
    /\ allocator.arena = 2
    /\ allocatorAMC.arena = 0
    /\ LiveArenas(mps) = {2}

\* the arena a of the MPS was created with the commit limit of configuration cfg
CreatedWith(m, a, cfg) ==
    /\ a \in LiveArenas(m)
    /\ m.arenas[a].limited
    /\ m.arenas[a].limit = cfg.commit_limit

\* C13: an allocation call that finds its allocator uninitialized, and whose
\* MPS creation calls all succeed, first initializes the allocator with the
\* default configuration (arena size 64 MiB, commit limit 512 MiB), then
\* serves the allocation: the call does not raise runtime_error, and the
\* arena it created carries the default commit limit.
C13_AutoInitDefaults ==
    [][/\ (op'.name \in ConsAllocOps /\ ~allocator.initialized
               /\ ~SomeCallFailed(calls')) =>
              /\ SubSeq(calls', 1, Len(CreateOrder)) = CreateOrder
              /\ op'.result # "runtime_error"
              /\ allocator'.initialized
              /\ allocator'.config = defaults
              /\ CreatedWith(mps', allocator'.arena, defaults)
       /\ (op'.name \in AmcAllocOps /\ ~allocatorAMC.initialized
               /\ ~SomeCallFailed(calls')) =>
              /\ SubSeq(calls', 1, Len(AmcCreateOrder)) = AmcCreateOrder
              /\ op'.result # "runtime_error"
              /\ allocatorAMC'.initialized
              /\ CreatedWith(mps', allocatorAMC'.arena, defaults)]_vars

\* C14: while an allocator is not initialized its collect() makes no MPS
\* call, does not initialize it and changes nothing, and its
\* committed_memory() and reserved_memory() are 0.
C14_InertWhileUninitialized ==
    /\ [](/\ ~allocator.initialized =>
                 /\ committed_memory(allocator, mps) = 0
                 /\ reserved_memory(allocator, mps) = 0
          /\ ~allocatorAMC.initialized =>
                 /\ amc_committed_memory(allocatorAMC, mps) = 0
                 /\ amc_reserved_memory(allocatorAMC, mps) = 0)
    /\ [][/\ (op'.name = "collect" /\ ~allocator.initialized) =>
                 /\ calls' = <<>>
                 /\ mps' = mps
                 /\ allocator' = allocator
          /\ (op'.name = "amc_collect" /\ ~allocatorAMC.initialized) =>
                 /\ calls' = <<>>
                 /\ mps' = mps
                 /\ allocatorAMC' = allocatorAMC]_vars

\* a collect after a shutdown, while the other allocator holds memory
C14_Witness ==
    /\ op.name = "collect"
    /\ op.result = "noop"
    /\ ~allocator.initialized
    /\ allocator.arena # 0
    /\ allocatorAMC.initialized
    /\ amc_committed_memory(allocatorAMC, mps) > 0

\* C15: every precise allocation call ends: a call that has been entered
\* returns or raises, provided the collector does not refuse its commit on
\* every pass.
C15_CallTerminates == (pc.at # "idle") ~> (pc.at = "idle")

\* a call that returned after a pass whose commit was refused
C15_Witness ==
    /\ pc.at = "idle"
    /\ pc.retried
    /\ op.name \in AmcAllocOps
    /\ op.result = "ok"
    /\ op.ret.state = "Committed"

\* the payload words of the object whose header is at base
PayloadWords(base) ==
    {a \in Addrs : base + header_size <= a /\ a < skip(mem, base)}

\* C16: when a collection has returned, no object it kept is forwarded, and
\* no word of the stack and no payload word of an object it kept holds the
\* old address of an object it moved.
C16_NoStaleReference ==
    ncollect > 0 =>
        /\ \A b \in gc.live : isfwd(mem, b) = 0
        /\ \A r \in slots : BaseOf(r) \notin gc.moved
        /\ \A b \in gc.live : \A a \in PayloadWords(b) : BaseOf(mem[a]) \notin gc.moved

BumpAllocOps == {"bump_alloc_args", "bump_alloc_array"}

\* the bytes a request takes from the arena and the cursor aligned for it
BumpSize(q) == IF q.c.variant = "alloc_array" THEN q.T.size * q.c.count ELSE q.T.size

BumpAligned(b, q) == AlignUp(b.current_, q.T.align)

InArena(b, addr) == b.arena_ <= addr /\ addr < b.arena_ + capacity(b)

\* C17 as stated: every request whose aligned cursor plus size does not
\* exceed the end of the arena returns an address in [arena_, arena_ + N)
\* and moves the cursor to aligned + size; every other request is served by
\* the pool, returns an address outside [arena_, arena_ + N) and leaves
\* used() and available() as they were.
C17_BumpOrFallBack ==
    bump.built =>
        \A q \in BumpRequests(bump, allocator, mps) :
            LET r == bump_serve(bump, allocator, mps, q) IN
            IF BumpAligned(bump, q) + BumpSize(q) <= bump.end_
            THEN /\ r.result = "ok"
                 /\ InArena(bump, r.ret.addr)
                 /\ r.bump.current_ = BumpAligned(bump, q) + BumpSize(q)
            ELSE /\ r.result = "ok" =>
                        (r.ret.src = "pool" /\ ~InArena(bump, r.ret.addr))
                 /\ used(r.bump) = used(bump)
                 /\ available(r.bump) = available(bump)

\* C17 amended: a request that fits returns the aligned cursor, which lies
\* in [arena_, arena_ + N] and below arena_ + N when the request has a size
\* greater than zero, and moves the cursor to aligned + size; every other
\* request is served by the pool, leaves used() and available() as they
\* were, and returns an address outside [arena_, arena_ + N) as long as the
\* arena the buffer was taken from has not been destroyed.
C17_BumpOrFallBackWhileAlive ==
    bump.built =>
        \A q \in BumpRequests(bump, allocator, mps) :
            LET r == bump_serve(bump, allocator, mps, q) IN
            IF BumpAligned(bump, q) + BumpSize(q) <= bump.end_
            THEN /\ r.result = "ok"
                 /\ r.ret.src = "bump"
                 /\ r.ret.addr = BumpAligned(bump, q)
                 /\ bump.arena_ <= r.ret.addr /\ r.ret.addr <= bump.end_
                 /\ BumpSize(q) > 0 => InArena(bump, r.ret.addr)
                 /\ r.bump.current_ = BumpAligned(bump, q) + BumpSize(q)
            ELSE /\ r.result = "ok" =>
                        /\ r.ret.src = "pool"
                        /\ bump.home \in LiveArenas(mps) => ~InArena(bump, r.ret.addr)
                 /\ used(r.bump) = used(bump)
                 /\ available(r.bump) = available(bump)

\* a request that did not fit was served by the pool while an earlier one
\* had been served from the arena, whose buffer is still allocated
C17_Witness ==
    /\ op.name \in BumpAllocOps
    /\ op.result = "ok"
    /\ op.ret.src = "pool"
    /\ ~InArena(bump, op.ret.addr)
    /\ used(bump) > 0
    /\ bump.home \in LiveArenas(mps)

\* C18 as stated: BumpAllocator::alloc and alloc_array never fail: every
\* request, whatever the capacity and the cursor, returns an object.
C18_BumpNeverFails ==
    bump.built =>
        \A q \in BumpRequests(bump, allocator, mps) :
            LET r == bump_serve(bump, allocator, mps, q) IN
            r.result = "ok" /\ r.ret # NoAddr

\* C18 amended: a request that fits in the arena never fails, whatever the
\* MPS answers; a request that does not fit is handed to Allocator::alloc or
\* alloc_array and fails exactly when that call fails: bad_alloc when
\* mps_alloc fails, runtime_error when its initialization fails.  A failed
\* request leaves the BumpAllocator as it was.
C18_BumpFailsOnlyWithPool ==
    bump.built =>
        \A q \in BumpRequests(bump, allocator, mps) :
            LET r == bump_serve(bump, allocator, mps, q)
                p == alloc(allocator, mps, q.c.variant, q.T.size, q.c.count, FALSE,
                           q.failAt, q.grow)
            IN
            IF BumpAligned(bump, q) + BumpSize(q) <= bump.end_
            THEN r.result = "ok" /\ r.ret # NoAddr /\ r.calls \in Seq({"memset", "construct"})
            ELSE /\ r.result = p.result
                 /\ r.calls = p.calls
                 /\ r.result = "bad_alloc" => Last(r.calls) = "mps_alloc:fail"
                 /\ r.result = "runtime_error" => SomeCallFailed(r.calls)
                 /\ r.result # "ok" => (r.bump = bump /\ r.ret = NoAddr)

\* a request that did not fit and that the pool, its commit limit reached,
\* refused
C18_Witness ==
    /\ op.name \in BumpAllocOps
    /\ op.result = "bad_alloc"
    /\ Last(calls) = "mps_alloc:fail"
    /\ bump.built
    /\ allocator.initialized

\* C19 as stated: an allocation that directly follows a reset() and asks for
\* what the first allocation asked for returns the address the first
\* returned, and used() is then what it was after the first.
C19_ResetRoundTrip ==
    (/\ op.name \in BumpAllocOps
     /\ op.result = "ok"
     /\ hist.afterReset
     /\ hist.first.set
     /\ hist.req = hist.first.req)
        => (op.ret.addr = hist.first.ret.addr /\ used(bump) = hist.first.used)

\* C19 amended: the same, when the first allocation was served from the
\* arena; the allocation after the reset() is then served from the arena too.
C19_ResetRoundTripInArena ==
    (/\ op.name \in BumpAllocOps
     /\ op.result = "ok"
     /\ hist.afterReset
     /\ hist.first.set
     /\ hist.first.ret.src = "bump"
     /\ hist.req = hist.first.req)
        => /\ op.ret.src = "bump"
           /\ op.ret.addr = hist.first.ret.addr
           /\ used(bump) = hist.first.used

\* after the first allocation and a reset(), a later allocation of the same
\* type that took bytes from the arena
C19_Witness ==
    /\ op.name \in BumpAllocOps
    /\ op.result = "ok"
    /\ hist.afterReset
    /\ hist.later
    /\ hist.first.ret.src = "bump"
    /\ hist.req = hist.first.req
    /\ op.ret.addr = hist.first.ret.addr
    /\ used(bump) > 0

\* C20: no two threads working through ThreadBumpAllocator are about to
\* touch the same static member of Allocator (initialized, config, arena,
\* pool, thread, thread_root), one of them writing it.
C20_NoSharedAccess ==
    \A t, u \in Threads :
        t # u =>
            Writes(threads[t].at)
                \cap (Reads(threads[u].at) \cup Writes(threads[u].at)) = {}

\* C22: after format::fwd(old, new) has moved an object, format::isfwd(old)
\* answers new: the tag at old has its low bit set and the rest of it is new.
C22_ForwardingMarker ==
    fmt.call.name = "fwd" =>
        /\ isfwd(mem, fmt.call.addr) = fmt.call.arg
        /\ HeaderTag(mem, fmt.call.addr) % 2 = 1

\* sizeof(ObjectHeader): the words size and type_tag
SizeofObjectHeader == 2 * PointerSize

\* the least multiple of the pointer size that is at least n
RoundedUp(n) == CHOOSE k \in n..(n + PointerSize - 1) : k % PointerSize = 0

\* C23: the object a precise alloc<T>(args...), alloc<T>() or
\* alloc_array<T>(n) has just committed has its header at a pointer-aligned
\* address, header.size is the header plus the payload bytes rounded up to
\* the pointer size, the tag is 0, and the pointer returned is the address
\* of the header plus the size of the header.
C23_HeaderOfCommitted ==
    fmt.call.name = "alloc" =>
        LET addr == fmt.call.addr
            req  == fmt.call.req
        IN  /\ addr % PointerSize = 0
            /\ HeaderSizeField(mem, addr)
                   = RoundedUp(SizeofObjectHeader + req.T.size * req.count)
            /\ HeaderTag(mem, addr) = 0
            /\ fmt.call.result = addr + SizeofObjectHeader
            /\ top = addr + HeaderSizeField(mem, addr)

\* an array whose bytes do not end at a word, allocated after another object
C23_Witness ==
    /\ fmt.call.name = "alloc"
    /\ fmt.call.req.variant = "alloc_array"
    /\ fmt.call.req.T.size = 1
    /\ fmt.call.req.count = 2
    /\ fmt.call.addr > HeapBase
    /\ HeaderSizeField(mem, fmt.call.addr) = 3 * PointerSize

\* the addresses format::skip leads through from from on, until it reaches to
\* or beyond, or stands still, or has made fuel steps
RECURSIVE SkipFrom(_, _, _, _)
SkipFrom(m, from, to, fuel) ==
    IF from >= to \/ fuel = 0 \/ from \notin Addrs THEN <<from>>
    ELSE <<from>> \o SkipFrom(m, skip(m, from), to, fuel - 1)

\* C24: the heap is walkable: from the base of the region format::skip
\* leads through the header of each of its objects, allocated, copied or
\* padding, once and in the order of their addresses, and then to the end of
\* the region; and right after pad(addr, size), skip(addr) is addr + size.
C24_Walkable ==
    /\ SkipFrom(mem, HeapBase, top, Len(fmt.starts) + 1) = fmt.starts \o <<top>>
    /\ fmt.call.name = "pad" =>
           skip(mem, fmt.call.addr) = fmt.call.addr + fmt.call.arg

\* what the allocators that are initialized hold in the MPS
OwnedResources ==
    (IF allocator.initialized
     THEN Holds(allocator.arena, {"pool", "thread", "root"}) ELSE {})
    \cup (IF allocatorAMC.initialized
          THEN Holds(allocatorAMC.arena, {"pool", "fmt", "thread", "root"}) ELSE {})

\* C25: between calls each allocator has at most one arena, and its arena,
\* pool, thread and root (and format) exist exactly when it is initialized:
\* the arenas alive are those of the initialized allocators, one each, and
\* the pools, threads, roots and formats alive are theirs, one of each kind.
C25_OneArenaOnePool ==
    /\ LiveArenas(mps) = OwnedArenas
    /\ mps.res = OwnedResources
    /\ (allocator.initialized /\ allocatorAMC.initialized) =>
           allocator.arena # allocatorAMC.arena
    /\ \A a \in LiveArenas(mps) :
           Cardinality({r \in mps.res : r[1] = "pool" /\ r[2] = a}) = 1

\* an init of the precise allocator that failed at the creation of its
\* format while the conservative allocator held its arena
C25_Witness ==
    /\ op.name = "amc_init"
    /\ op.result = "runtime_error"
    /\ Pos("fmt_create:fail") # {}
    /\ allocator.initialized
    /\ LiveArenas(mps) = {allocator.arena}

RECURSIVE WordsFrom(_, _)
WordsFrom(from, to) ==
    IF from >= to THEN <<>> ELSE <<from>> \o WordsFrom(from + PointerSize, to)

\* C27: format::scan on the object at base hands to the collector's fix-up
\* the words from base + header_size up to base + header.size, each once
\* and in ascending order, no word of the header and no word beyond the
\* object, and leaves in each the value the fix-up gave for it; the header
\* is as it was.
C27_ScanVisitsPayload ==
    [][(fmt'.call.name = "scan" /\ ncollect' = ncollect + 1) =>
          LET base    == fmt'.call.addr
              visited == fmt'.call.visited
          IN  /\ [i \in 1..Len(visited) |-> visited[i].p]
                     = WordsFrom(base + SizeofObjectHeader,
                                 base + HeaderSizeField(mem, base))
              /\ \A i \in 1..Len(visited) :
                     /\ visited[i].in = mem[visited[i].p]
                     /\ mem'[visited[i].p] = visited[i].out
              /\ mem'[base] = mem[base]
              /\ mem'[base + PointerSize] = mem[base + PointerSize]]_vars

\* a scan of an object of two payload words in which the fix-up replaced a
\* reference
C27_Witness ==
    /\ fmt.call.name = "scan"
    /\ Len(fmt.call.visited) = 2
    /\ \E i \in 1..2 : fmt.call.visited[i].in # fmt.call.visited[i].out

C29_IsForwarded ==
    /\ fmt.call.name = "isfwd" =>
           LET tag == HeaderTag(mem, fmt.call.addr) IN
           fmt.call.result = IF tag % 2 = 1 THEN 2 * (tag \div 2) ELSE 0
    /\ fmt.call.name \in {"alloc", "pad"} => isfwd(mem, fmt.call.addr) = 0
    /\ \A b \in Range(fmt.starts) : isfwd(mem, b) = 0

\* isfwd applied where the word read as the tag has its low bit set
C29_Witness ==
    /\ fmt.call.name = "isfwd"
    /\ HeaderTag(mem, fmt.call.addr) = SomeInt
    /\ fmt.call.result = SomeInt - 1

\* C30: format::fwd(old, new) makes the header.size bytes at new equal to
\* the header.size bytes that were at old, header.size being the size
\* recorded at old, and changes no other byte.
C30_ForwardCopies ==
    [][(fmt'.call.name = "fwd" /\ ncollect' = ncollect + 1) =>
          LET old  == fmt'.call.addr
              new  == fmt'.call.arg
              size == HeaderSizeField(mem, old)
          IN  \A a \in Addrs :
                  mem'[a] = IF new <= a /\ a < new + size THEN mem[old + (a - new)]
                            ELSE mem[a]]_vars

\* an object with a payload that holds an integer, moved
C30_Witness ==
    /\ fmt.call.name = "fwd"
    /\ HeaderSizeField(mem, fmt.call.addr) > SizeofObjectHeader
    /\ mem[fmt.call.addr + SizeofObjectHeader] = SomeInt
    /\ mem[fmt.call.arg + SizeofObjectHeader] = SomeInt

OwnedBuffers(b) == {f \in store.bufs : f.base = b.arena_}

\* C32: in every state of a BumpAllocator reached by construction, alloc,
\* alloc_array (served from the arena or by the pool), reset, clear, move
\* construction and move assignment, arena_start <= cursor <= arena_end,
\* used() + available() = capacity(), and capacity() is the size of the
\* buffer the object owns, 0 for an object that owns none; no buffer is
\* owned by two objects.
C32_ArenaInvariant ==
    /\ \A o \in Objects :
          Object(o).built =>
             /\ Object(o).arena_ <= Object(o).current_
             /\ Object(o).current_ <= Object(o).end_
             /\ used(Object(o)) + available(Object(o)) = capacity(Object(o))
             /\ \A f \in OwnedBuffers(Object(o)) : capacity(Object(o)) = f.size
             /\ OwnedBuffers(Object(o)) = {} => capacity(Object(o)) = 0
    /\ (bump.built /\ other.built) => OwnedBuffers(bump) \cap OwnedBuffers(other) = {}

\* an object that allocated from its buffer was moved into another, which
\* had a buffer of its own
C32_Witness ==
    /\ op.name = "bump_move_assign"
    /\ bump = MovedFrom
    /\ used(other) > 0
    /\ Cardinality(store.bufs) = 2

\* C33: between two consecutive reset()/clear() calls of a BumpAllocator the
\* byte ranges of the non-empty objects served from the arena are pairwise
\* disjoint, each lies inside [arena_start, arena_start + N), each starts at
\* a multiple of alignof(T), and they are handed out in strictly increasing
\* address order.
C33_ServedRanges ==
    LET s == store.served["bump"] IN
    /\ \A i \in 1..Len(s) :
          /\ s[i].size > 0
          /\ bump.arena_ <= s[i].addr
          /\ s[i].addr + s[i].size <= bump.arena_ + capacity(bump)
          /\ s[i].addr % s[i].align = 0
    /\ \A i \in 1..Len(s) : \A j \in 1..Len(s) :
          i < j => /\ s[i].addr < s[j].addr
                   /\ s[i].addr + s[i].size <= s[j].addr

\* an int was served and then an object of alignment 8, past the bytes the
\* alignment skips
C33_Witness ==
    /\ Len(store.served["bump"]) = 2
    /\ store.served["bump"][1].size = 4
    /\ store.served["bump"][2].align = 8
    /\ store.served["bump"][2].addr > store.served["bump"][1].addr + 4
    /\ op.ret.src = "bump"

\* C34: can_allocate agrees with alloc: can_allocate(sizeof(T)) returns true
\* exactly when the alloc<T>() that follows is served from the arena, and
\* false exactly when it falls back to the pool.
C34_CanAllocateAgrees ==
    op.name = "bump_alloc_args" => (store.can <=> op.ret.src = "bump")

\* the bytes of the buffer of b
BufferOf(b) == {a \in ArenaBytes : b.arena_ <= a /\ a < b.arena_ + b.arena_size_}

\* C35: clear() sets every byte of the arena buffer to zero and rewinds the
\* cursor to the arena start (used() = 0, available() = capacity());
\* reset() rewinds the cursor the same way and leaves every byte of the
\* buffer unchanged; neither runs a destructor, calls into the owning pool,
\* or changes capacity().
C35_ClearAndReset ==
    [][/\ op'.name = "bump_clear" =>
             /\ \A a \in BufferOf(bump) : store'.bytes[a] = 0
             /\ \A a \in ArenaBytes \ BufferOf(bump) : store'.bytes[a] = store.bytes[a]
             /\ \A i \in 1..Len(calls') : calls'[i] = "memset"
       /\ op'.name = "bump_reset" =>
             /\ store'.bytes = store.bytes
             /\ calls' = <<>>
       /\ op'.name \in {"bump_clear", "bump_reset"} =>
             /\ used(bump') = 0
             /\ available(bump') = capacity(bump')
             /\ capacity(bump') = capacity(bump)
             /\ bump'.arena_ = bump.arena_
             /\ mps' = mps
             /\ allocator' = allocator]_vars

\* a reset() has rewound an arena that holds the bytes of an object
C35_Witness ==
    /\ op.name = "bump_reset"
    /\ used(bump) = 0
    /\ \E a \in BufferOf(bump) : store.bytes[a] = 1

\* C36: a failed init(cfg) leaves the allocator's state as it was before the
\* call: besides remaining uninitialized, get_config() and stats() still
\* report the configuration that was stored before the failing call, not
\* cfg.
C36_FailedInitKeepsConfig ==
    [][(op'.name = "init" /\ op'.result = "runtime_error") =>
           /\ ~allocator'.initialized
           /\ get_config(allocator') = get_config(allocator)
           /\ stats(allocator', mps').arena_size = stats(allocator, mps).arena_size
           /\ stats(allocator', mps').commit_limit = stats(allocator, mps).commit_limit]_vars

\* C37: alloc_array<T>(n) of the conservative pool, the precise pool and the
\* bump arena constructs elements only inside storage it reserved: for every
\* n, those included for which n * sizeof(T), or that product plus header
\* size and alignment padding, wraps around the machine word, the reserved
\* byte count is at least n * sizeof(T) or the call fails without
\* constructing any element.
C37_ArrayWithinReserved ==
    arr.fn # "none" =>
        \/ arr.reserved >= arr.count * arr.T.size
        \/ arr.result # "ok" /\ arr.constructed = 0

====
